---- MODULE Spec2Model ----
(***************************************************************************)
(* Model of the agentic research loop of src/researcher.py                 *)
(* (class AgenticResearcher): the controller run_research_loop, the        *)
(* conversation driver run_research_iteration, the two capability adapters *)
(* search_with_exa / get_full_content and the formatter                    *)
(* format_search_results.                                                  *)
(*                                                                         *)
(* One action is everything the code does between the return (or raise) of *)
(* one external call and the start of the next one.  The external calls    *)
(* are the model (claude_client.messages.create), the search provider      *)
(* (exa_client.search_and_contents) and the fetch provider                 *)
(* (firecrawl_client.scrape_url); each either returns a value drawn from a *)
(* small set or raises.  The wall clock (datetime.now) is read where the   *)
(* code reads it.                                                          *)
(*                                                                         *)
(* Three specifications share the state: Spec and SpecClock are runs of    *)
(* run_research_loop (under a clock that always advances, and under one    *)
(* whose readings may coincide); SpecDirect is a researcher whose adapters *)
(* and formatter are called on their own, one whole call per action, with  *)
(* every provider outcome and every argument the code distinguishes.       *)
(*                                                                         *)
(* Python strings are TLA+ strings; an f-string or a join is the tuple of  *)
(* its parts.  None is the string None.                                    *)
(***************************************************************************)
EXTENDS Integers, Sequences, FiniteSets, TLC

\* ------------------------------------------------------------------ bounds

\* Largest max_iterations a run is started with (runs are started with 0..MaxIterations).
MaxIterations == 3

\* Largest max_iterations under the free-running clock of SpecClock.
MaxClockIterations == 2

\* Clock ticks per second in the model (the real clock has 10^6 microseconds).
TicksPerSecond == 2

\* How many calls a caller other than the loop makes on one researcher.
MaxDirectCalls == 2

\* Calls of run_research_loop on one researcher.
MaxRuns == 2

\* IterationRecords of one researcher, over all its runs.
MaxLedger == 2

\* Passes of one page session through the research execution block.
MaxPasses == 2

\* Longest result sequence handed to the formatter by such a caller.
MaxEntries == 2

\* ------------------------------------------------------- program constants

IterationMaxTokens == 4000
SynthesisMaxTokens == 8192
MaxContentChars == 100000
MaxExcerptChars == 2000
BigDocumentChars == 150000

None == "None"
NoNum == -1

\* ------------------------------------------------------------ small helpers

Min(a, b) == IF a < b THEN a ELSE b

Last(s) == s[Len(s)]

IsPrefix(s, t) == Len(s) <= Len(t) /\ SubSeq(t, 1, Len(s)) = s

RECURSIVE Concat(_)
Concat(ss) == IF ss = <<>> THEN <<>> ELSE Head(ss) \o Concat(Tail(ss))

\* dict.get(key, default)
Get(d, key, default) == IF key \in DOMAIN d THEN d[key] ELSE default

\* ------------------------------------------------------------- timestamps

Digit(d) == 48 + d
Dot == 46

\* datetime.isoformat(): the seconds field has a fixed width, the fraction is
\* printed only when it is not zero.  The date, hour and minute fields are the
\* same for every reading of a run and are left out.
IsoFormat(t) ==
    LET sec == t \div TicksPerSecond
        us  == t % TicksPerSecond
    IN  <<Digit((sec \div 10) % 10), Digit(sec % 10)>>
            \o (IF us = 0 THEN <<>> ELSE <<Dot, Digit(us)>>)

\* Python's str > str: lexicographic on code points, a proper prefix is smaller.
StrGreater(a, b) ==
    \E k \in 1..Len(a) :
        /\ \A j \in 1..(k - 1) : j <= Len(b) /\ a[j] = b[j]
        /\ (k > Len(b) \/ a[k] > b[k])

\* ------------------------------------------------------- content blocks

TextBlock(t) == [type |-> "text", text |-> t]

ToolUse(name, input, id) ==
    [type |-> "tool_use", name |-> name, input |-> input, id |-> id]

NoItem == [type |-> "none"]

\* What the model may answer to a decision call (tools offered).
RespText == <<TextBlock("plan"), TextBlock("next steps")>>
RespSearch ==
    <<TextBlock("let me search"),
      ToolUse("web_search", [query |-> "q_a", start_date |-> "2020-01-01"], "tu_a")>>
RespFetch == <<ToolUse("get_article_content", [url |-> "u_b"], "tu_b")>>
RespMulti ==
    <<TextBlock("search, then read"),
      ToolUse("web_search", [query |-> "q_c", end_date |-> "2024-12-31"], "tu_c"),
      ToolUse("get_article_content", [url |-> "u_d"], "tu_d")>>
RespUnknown ==
    <<TextBlock("retrieving"), ToolUse("get_full_content", [url |-> "u_e"], "tu_e")>>
RespUnknownThenSearch ==
    <<ToolUse("get_full_content", [url |-> "u_f"], "tu_f"),
      ToolUse("web_search", [query |-> "q_g"], "tu_g")>>

\* Responses with one invocation at most, of a tool the driver handles.
PlainDecisionResponses == {RespText, RespSearch, RespFetch}

\* Responses that include several invocations and invocations of a tool the
\* driver does not handle.
DecisionResponses ==
    {RespText, RespFetch, RespMulti, RespUnknown, RespUnknownThenSearch}

\* What the model answers when no tools are offered.
AnalysisResponse == <<TextBlock("analysis")>>
ReportResponse == <<TextBlock("# Report"), TextBlock("[source](link)")>>

ModelError == "model error"
SearchError == "search error"
FetchError == "fetch error"

\* ------------------------------------------------ strings with a length

\* A Python string: what it is (s) and how many characters of it (len).
\* [s |-> x, len |-> n] with n below the length of x is the first n characters.
Str(s, n) == [s |-> s, len |-> n]

NoneStr == Str(None, -1)

ErrContent == Str("Error retrieving content", 24)

\* Faulty variant: the content is returned whole.
TruncateContent_NoLimit(content) == Str(content.s, content.len)

\* content[:100000]
TruncateContent(content) == Str(content.s, Min(content.len, MaxContentChars))

\* ------------------------------------------------------- search provider

\* The value a search provider call returns: its shape (an object with a
\* results attribute, a mapping with a results key, or anything else), whether
\* len() of the results is defined, and the result entries.
SearchResponse(shape, sized, results) ==
    [shape |-> shape, sized |-> sized, results |-> results]

\* search_with_exa returns None on a fault.
NoneResponse == SearchResponse("None", FALSE, <<>>)

Entry1 ==
    [style |-> "obj", title |-> "T1", url |-> "u_1", publishedDate |-> "2021",
     author |-> "A1", text |-> Str("body1", 3000)]
Entry2 ==
    [style |-> "dict", title |-> "T2", url |-> "u_2", text |-> Str("body2", 1500)]

\* An entry whose text is None, and an entry with no field at all (a
\* character of a results field that is a string).
EntryNoText ==
    [style |-> "obj", title |-> "T3", url |-> "u_3", text |-> NoneStr]
EntryBare == [style |-> "char"]

Returned(v) == [kind |-> "returned", value |-> v]
Raised(e) == [kind |-> "raised", error |-> e]

SearchOutcomes ==
    {Raised(SearchError), Returned(SearchResponse("attr", TRUE, <<Entry1, Entry2>>))}

\* Everything the search provider may do when the adapter is called on its
\* own: raise, return results (some, none), return results that are None
\* (no length, not iterable), return a value with no results at all, or None.
AnySearchOutcomes ==
    SearchOutcomes \cup
    {Returned(SearchResponse("dict", TRUE, <<Entry2>>)),
     Returned(SearchResponse("attr", TRUE, <<>>)),
     Returned(SearchResponse("attr", FALSE, <<>>)),
     Returned(SearchResponse("dict", FALSE, <<>>)),
     Returned(SearchResponse("other", FALSE, <<>>)),
     Returned(NoneResponse)}

\* researcher.py 96-100: the defensive count of results.
ResultCount(results) ==
    IF results.shape = "attr" THEN Len(results.results)
    ELSE IF results.shape = "dict" THEN Len(results.results)
    ELSE 0

\* What the try block of search_with_exa raises: the provider's exception, or
\* the TypeError of len() on results that have no length; <<>> when nothing.
SearchFault(outcome) ==
    IF outcome.kind = "raised" THEN <<outcome.error>>
    ELSE IF outcome.value.shape \in {"attr", "dict"} /\ ~outcome.value.sized
         THEN <<"TypeError">>
    ELSE <<>>

\* Faulty variant: a failed search is logged like an empty successful one.
SearchRecord_NoError(outcome, query, start_date, end_date, ts) ==
    [query |-> query, timestamp |-> ts,
     num_results |-> IF SearchFault(outcome) = <<>>
                     THEN ResultCount(outcome.value) ELSE 0,
     start_date |-> start_date, end_date |-> end_date]

\* researcher.py 102-108 and 116-123: the SearchRecord of one call.
SearchRecord(outcome, query, start_date, end_date, ts) ==
    IF SearchFault(outcome) = <<>>
    THEN [query |-> query, timestamp |-> ts,
          num_results |-> ResultCount(outcome.value),
          start_date |-> start_date, end_date |-> end_date]
    ELSE [query |-> query, timestamp |-> ts, error |-> SearchFault(outcome)[1],
          num_results |-> 0, start_date |-> start_date, end_date |-> end_date]

\* researcher.py 112 and 124: what search_with_exa returns.
SearchReturn(outcome) ==
    IF SearchFault(outcome) = <<>> THEN outcome.value ELSE NoneResponse

\* Faulty variant: the history keeps the record of the latest call only.
AppendRecord_KeepsLatest(history, record) == <<record>>

\* self.search_history.append(...), self.content_retrieval_history.append(...)
AppendRecord(history, record) == Append(history, record)

\* -------------------------------------------------------- fetch provider

\* The value a fetch provider call returns: its shape and the markdown it
\* carries (<<>> when the markdown is absent).
FetchResponse(shape, markdown) == [shape |-> shape, markdown |-> markdown]

FetchOutcomes ==
    {Raised(FetchError),
     Returned(FetchResponse("attr_markdown", <<Str("doc1", BigDocumentChars)>>))}

FetchShapes ==
    {"attr_markdown", "attr_data_attr", "attr_data_dict", "dict_data", "dict_flat"}

\* Documents shorter than, as long as and longer than the limit of 174.
Documents ==
    {Str("doc", n) : n \in {0, MaxContentChars - 1, MaxContentChars,
                            MaxContentChars + 1, BigDocumentChars}}

\* Everything the fetch provider may do when the adapter is called on its
\* own: raise, return a document in one of the shapes read at 141-158, return
\* a markdown that is None, or return a value that holds no markdown.
AnyFetchOutcomes ==
    {Raised(FetchError)}
        \cup {Returned(FetchResponse("attr_markdown", <<doc>>)) : doc \in Documents}
        \cup {Returned(FetchResponse(shape, <<Str("doc", BigDocumentChars)>>)) :
                  shape \in FetchShapes}
        \cup {Returned(FetchResponse(shape, <<NoneStr>>)) : shape \in FetchShapes}
        \cup {Returned(FetchResponse(shape, <<>>)) :
                  shape \in (FetchShapes \ {"attr_markdown"}) \cup {"other"}}

\* researcher.py 138-158: the markdown of a response, by shape.
GetMarkdown(response) ==
    IF response.shape = "attr_markdown" THEN response.markdown[1]
    ELSE IF response.shape \in {"attr_data_attr", "attr_data_dict"}
         THEN IF response.markdown # <<>> THEN response.markdown[1] ELSE ErrContent
    ELSE IF response.shape \in {"dict_data", "dict_flat"}
         THEN IF response.markdown # <<>> THEN response.markdown[1] ELSE ErrContent
    ELSE ErrContent

\* What the try block of get_full_content raises: the provider's exception, or
\* the TypeError of len(None); <<>> when nothing.
FetchFault(outcome) ==
    IF outcome.kind = "raised" THEN <<outcome.error>>
    ELSE IF GetMarkdown(outcome.value) = NoneStr THEN <<"TypeError">>
    ELSE <<>>

\* Faulty variant: a call whose provider did not raise is logged as a success.
FetchRecord_SuccessUnlessRaised(outcome, url, ts) ==
    IF outcome.kind = "returned" /\ GetMarkdown(outcome.value) # NoneStr
    THEN [url |-> url, timestamp |-> ts, success |-> TRUE,
          content_length |-> GetMarkdown(outcome.value).len]
    ELSE [url |-> url, timestamp |-> ts, success |-> FALSE, error |-> "error"]

\* researcher.py 161-170 and 179-188: the FetchRecord of one call.
FetchRecord(outcome, url, ts) ==
    IF FetchFault(outcome) = <<>>
    THEN [url |-> url, timestamp |-> ts,
          success |-> (GetMarkdown(outcome.value) # ErrContent),
          content_length |-> GetMarkdown(outcome.value).len]
    ELSE [url |-> url, timestamp |-> ts, success |-> FALSE,
          error |-> FetchFault(outcome)[1]]

\* researcher.py 174 and 190: what get_full_content returns.
FetchReturn(outcome) ==
    IF FetchFault(outcome) = <<>>
    THEN TruncateContent(GetMarkdown(outcome.value))
    ELSE ErrContent

\* -------------------------------------------------------------- formatter

Fixed(text) == [fixed |-> text, blocks |-> <<>>]

\* Faulty variant: a text of exactly 2000 characters gets the marker too.
Excerpt_MarkerAtLimit(text) ==
    IF text.len >= MaxExcerptChars
    THEN [s |-> text.s, len |-> MaxExcerptChars, ellipsis |-> TRUE]
    ELSE [s |-> text.s, len |-> text.len, ellipsis |-> FALSE]

\* text[:2000] + "..." if len(text) > 2000 else text
Excerpt(text) ==
    IF text.len > MaxExcerptChars
    THEN [s |-> text.s, len |-> MaxExcerptChars, ellipsis |-> TRUE]
    ELSE [s |-> text.s, len |-> text.len, ellipsis |-> FALSE]

\* Formatting an entry faults when its text is present and is not a string.
EntryFaults(entry) == "text" \in DOMAIN entry /\ entry.text = NoneStr

\* researcher.py 226-255: the block of the entry at 1-based position ordinal.
FormatArticle(ordinal, entry) ==
    IF EntryFaults(entry)
    THEN [ordinal |-> ordinal, placeholder |-> TRUE]
    ELSE [ordinal |-> ordinal, placeholder |-> FALSE,
          title |-> Get(entry, "title", "N/A"),
          url |-> Get(entry, "url", "N/A"),
          published |-> Get(entry, "publishedDate", "N/A"),
          author |-> Get(entry, "author", "N/A"),
          excerpt |-> IF "text" \in DOMAIN entry
                      THEN <<Excerpt(entry.text)>> ELSE <<>>]

\* researcher.py 224: enumerate(results) is outside every try statement of the
\* formatter; results that cannot be iterated (None) raise a TypeError there.
FormatFault(search_response) ==
    IF search_response.shape \in {"attr", "dict"} /\ ~search_response.sized
    THEN <<"TypeError">>
    ELSE <<>>

\* Faulty variant: the list is joined without the test of line 257.
FormatSearchResults_NoEmptyTest(search_response) ==
    IF search_response.shape = "None" THEN Fixed("No search results found.")
    ELSE LET results == IF search_response.shape \in {"attr", "dict"}
                        THEN search_response.results ELSE <<>>
         IN  [fixed |-> "",
              blocks |-> [k \in 1..Len(results) |-> FormatArticle(k, results[k])]]

\* Faulty variant: one try statement around the whole loop, so that a fault
\* in one entry discards every block.
FormatSearchResults_OneTry(search_response) ==
    IF search_response.shape = "None" THEN Fixed("No search results found.")
    ELSE LET results == IF search_response.shape \in {"attr", "dict"}
                        THEN search_response.results ELSE <<>>
         IN  IF \E k \in 1..Len(results) : EntryFaults(results[k])
             THEN Fixed("Error processing search results.")
             ELSE IF results = <<>>
             THEN Fixed("No results found for the given query.")
             ELSE [fixed |-> "",
                   blocks |-> [k \in 1..Len(results) |-> FormatArticle(k, results[k])]]

\* researcher.py 201-260: what the formatter returns when it returns.
FormatSearchResults(search_response) ==
    IF search_response.shape = "None" THEN Fixed("No search results found.")
    ELSE LET results == IF search_response.shape \in {"attr", "dict"}
                        THEN search_response.results ELSE <<>>
             formatted == [k \in 1..Len(results) |-> FormatArticle(k, results[k])]
         IN  IF formatted = <<>>
             THEN Fixed("No results found for the given query.")
             ELSE [fixed |-> "", blocks |-> formatted]

\* researcher.py 216-218: the formatter reports a response of unknown shape.
FormatReportsShape(search_response) ==
    search_response.shape \notin {"None", "attr", "dict"}

\* Faulty variant: only the first text block is extracted.
ExtractTextContent_FirstOnly(content_list) ==
    LET texts == SelectSeq(content_list, LAMBDA item : item.type = "text")
    IN  IF texts = <<>> THEN <<>> ELSE <<texts[1].text>>

\* Result sequences of up to n entries.
RECURSIVE EntrySeqs(_)
EntrySeqs(n) ==
    IF n = 0 THEN {<<>>}
    ELSE EntrySeqs(n - 1) \cup
         {Append(es, e) : es \in {x \in EntrySeqs(n - 1) : Len(x) = n - 1},
                          e \in {Entry1, Entry2, EntryNoText}}

\* An entry of either style whose text has n characters.
TextEntry(style, n) ==
    [style |-> style, title |-> "T4", url |-> "u_4", text |-> Str("body4", n)]

\* Entries whose text is as long as the excerpt limit, and one longer.
LimitEntries ==
    {TextEntry(style, n) :
        style \in {"obj", "dict"}, n \in {MaxExcerptChars, MaxExcerptChars + 1}}

\* What a caller may hand to the formatter: None, a value with no results,
\* results that are None, results that are a string, and result sequences
\* mixing well-formed entries with entries whose text is None.
FormatInputs ==
    {NoneResponse,
     SearchResponse("other", FALSE, <<>>),
     SearchResponse("attr", FALSE, <<>>),
     SearchResponse("dict", FALSE, <<>>),
     SearchResponse("attr", TRUE, <<EntryBare, EntryBare>>),
     SearchResponse("dict", TRUE, <<>>),
     SearchResponse("dict", TRUE, <<Entry2, EntryNoText>>)}
        \cup {SearchResponse("attr", TRUE, es) : es \in EntrySeqs(MaxEntries)}
        \cup {SearchResponse("attr", TRUE, <<e>>) : e \in LimitEntries}

\* researcher.py 262-273: the texts of the text blocks (joined by newlines).
ExtractTextContent(content_list) ==
    LET texts == SelectSeq(content_list, LAMBDA item : item.type = "text")
    IN  [k \in 1..Len(texts) |-> texts[k].text]

\* ------------------------------------------------------------------ state

VARIABLES
    pc,                         \* where the run is (which external call it waits on)
    ticks,                      \* by how much the clock may advance between two readings
    responses,                  \* what the model may answer to a decision call
    clock,                      \* the wall clock, in ticks
    user_query,                 \* run_research_loop: user_query
    max_iterations,             \* run_research_loop: max_iterations
    i,                          \* run_research_loop: the loop index (0-based)
    messages,                   \* self.messages
    research_iterations,        \* self.research_iterations
    search_history,             \* self.search_history
    content_retrieval_history,  \* self.content_retrieval_history
    events,                     \* what progress_callback received, in order
    calls,                      \* the external calls made so far, in order
    stamps,                     \* every datetime.now().isoformat() taken, in order
    response,                   \* run_research_iteration: the model's answer to the decision call
    content_item,               \* run_research_iteration: the tool_use block acted on
    claude_response,            \* what run_research_iteration returned
    result,                     \* what run_research_loop returned: <<report, data>>
    invocations,                \* the calls made on the researcher from outside the loop
    session_state               \* main.py: st.session_state, the flags and results of the page

vars ==
    <<pc, ticks, responses, clock, user_query, max_iterations, i, messages,
      research_iterations, search_history, content_retrieval_history, events,
      calls, stamps, response, content_item, claude_response, result,
      invocations, session_state>>

ModelId == "claude-3-5-sonnet-latest"

Queries == {"effects of metformin on liver health"}

\* ----------------------------------------------------------- progress events

\* update_progress(message, progress_type, iteration_num, total_iterations):
\* what the callback receives, and when it receives it: how many external
\* calls were made and how many IterationRecords were appended before.
Event(type, msg, num, total) ==
    [type |-> type, msg |-> msg, iteration_num |-> num, total_iterations |-> total,
     ncalls |-> Len(calls), nrecords |-> Len(research_iterations)]

Ev(type, msg) == Event(type, msg, NoNum, NoNum)

\* An event emitted after the call that the same action makes.
AfterCall(ev) == [ev EXCEPT !.ncalls = @ + 1]

\* Faulty variant: the event after a failed search is of kind search too.
SearchAfterEvent_AlwaysSearch(outcome) ==
    IF SearchFault(outcome) = <<>>
    THEN Ev("search", "Found results for")
    ELSE Ev("search", "Search error")

\* researcher.py 110 and 114: the event search_with_exa emits after the
\* provider call.
SearchAfterEvent(outcome) ==
    IF SearchFault(outcome) = <<>>
    THEN Ev("search", "Found results for")
    ELSE Ev("error", "Search error")

\* researcher.py 172 and 176: the event get_full_content emits after the
\* provider call.
FetchAfterEvent(outcome) ==
    IF FetchFault(outcome) = <<>>
    THEN Ev("content", "Retrieved characters from article")
    ELSE Ev("error", "Content retrieval error")

\* Faulty variant: the iteration event carries the loop index as it is.
IterationEvent_ZeroBased(idx, n) ==
    Event("iteration", "Research iteration", idx, n)

\* researcher.py 507-508
IterationEvent(idx, n) ==
    Event("iteration", "Research iteration", idx + 1, n)

\* ------------------------------------------------------------------ messages

\* A message whose content is a plain string (an f-string with its parts).
UserMsg(parts) == [role |-> "user", content |-> <<[type |-> "str", value |-> parts]>>]

AssistantMsg(content) == [role |-> "assistant", content |-> content]

\* Faulty variant: the tool result is bound to the id of the message, not of the block.
ToolResultMsg_MessageId(tool_use_id, content) ==
    [role |-> "user",
     content |-> <<[type |-> "tool_result", tool_use_id |-> "msg_id",
                    content |-> content]>>]

\* Faulty variant: the tool result is sent in the assistant's role.
ToolResultMsg_AssistantRole(tool_use_id, content) ==
    [role |-> "assistant",
     content |-> <<[type |-> "tool_result", tool_use_id |-> tool_use_id,
                    content |-> content]>>]

\* researcher.py 388-396 and 446-454
ToolResultMsg(tool_use_id, content) ==
    [role |-> "user",
     content |-> <<[type |-> "tool_result", tool_use_id |-> tool_use_id,
                    content |-> content]>>]

\* researcher.py 192-199
SeedMsg(q) == UserMsg(<<"I want to thoroughly research: ", q>>)

\* researcher.py 544-553
NextPrompt(q) == UserMsg(<<"Based on what you've learned so far about ", q>>)

\* researcher.py 559-577
FinalPrompt(q, n) == UserMsg(<<"We've completed iterations of research on ", q, n>>)

\* Faulty variant: a message that follows one of the same role replaces it.
AppendMessage_MergeSameRole(msgs, message) ==
    IF msgs # <<>> /\ msgs[Len(msgs)].role = message.role
    THEN [msgs EXCEPT ![Len(msgs)] = message]
    ELSE Append(msgs, message)

\* self.messages.append(message)
AppendMessage(msgs, message) == Append(msgs, message)

\* ------------------------------------------------------------ external calls

\* A call of claude_client.messages.create: what it is for, whether the tool
\* manifest is passed, max_tokens, and how many messages the conversation has.
ModelCall(purpose, tools, max_tokens, iter, nmsgs) ==
    [kind |-> "model", purpose |-> purpose, tools |-> tools,
     max_tokens |-> max_tokens, iteration |-> iter, nmsgs |-> nmsgs,
     arg |-> None, outcome |-> "pending"]

\* A call of a provider from an adapter, with the query or url passed.
ProviderCall(kind, arg, iter, nmsgs) ==
    [kind |-> kind, purpose |-> "tool", tools |-> FALSE, max_tokens |-> 0,
     iteration |-> iter, nmsgs |-> nmsgs, arg |-> arg, outcome |-> "pending"]

\* Faulty variant: the follow-up call offers the tools again.
AnalysisCall_WithTools(iter, nmsgs) ==
    ModelCall("analysis", TRUE, IterationMaxTokens, iter, nmsgs)

\* Faulty variant: after the tool result the model is asked to decide again.
AnalysisCall_DecidesAgain(iter, nmsgs) ==
    ModelCall("decision", TRUE, IterationMaxTokens, iter, nmsgs)

\* researcher.py 401-405 and 459-463: the follow-up call passes no tools.
AnalysisCall(iter, nmsgs) ==
    ModelCall("analysis", FALSE, IterationMaxTokens, iter, nmsgs)

\* Faulty variant: the report is requested with the budget of a pass.
SynthesisCall_IterationBudget(nmsgs) ==
    ModelCall("synthesis", FALSE, IterationMaxTokens, NoNum, nmsgs)

\* researcher.py 580-584: the report is requested without tools, max_tokens 8192.
SynthesisCall(nmsgs) ==
    ModelCall("synthesis", FALSE, SynthesisMaxTokens, NoNum, nmsgs)

\* Faulty variant: the next step is taken without waiting for the call to end.
Settle_LeavesPending(cs, outcome) == cs

\* The pending call (the last one) ends with the outcome given.
Settle(cs, outcome) == [cs EXCEPT ![Len(cs)].outcome = outcome]

\* ------------------------------------------------------- exception handlers

\* Faulty variant: the follow-up analysis call is made outside the try statement.
EnclosingTry_AnalysisOutside(site) ==
    CASE site = "decision"  -> "run_research_iteration"
      [] site = "analysis"  -> "none"
      [] site = "synthesis" -> "run_research_loop"

\* Faulty variant: the try statement starts after the decision call.
EnclosingTry_DecisionOutside(site) ==
    CASE site = "decision"  -> "none"
      [] site = "analysis"  -> "run_research_iteration"
      [] site = "synthesis" -> "run_research_loop"

\* Faulty variant: the report is requested outside the try statement.
EnclosingTry_SynthesisOutside(site) ==
    CASE site = "decision"  -> "run_research_iteration"
      [] site = "analysis"  -> "run_research_iteration"
      [] site = "synthesis" -> "none"

\* The try statement that encloses the call site of each model call.
EnclosingTry(site) ==
    CASE site = "decision"  -> "run_research_iteration"
      [] site = "analysis"  -> "run_research_iteration"
      [] site = "synthesis" -> "run_research_loop"

\* Faulty variant: the except branch returns no text.
IterationErrorText_Nothing(e) == <<>>

\* researcher.py 495
IterationErrorText(e) == <<"An error occurred: ", e>>

\* researcher.py 608
ReportErrorText(e) == <<"An error occurred while generating the final report: ", e>>

\* ---------------------------------------------------------- tool dispatch

\* Faulty variant: the tool name of the system prompt is handled as a fetch.
HandledTools_WithPromptName == {"web_search", "get_article_content", "get_full_content"}

\* researcher.py 342 and 423: the names the driver compares with.
HandledTools == {"web_search", "get_article_content"}

\* Faulty variant: the loop does not stop at the first block it handles, the last wins.
FirstHandled_LastWins(content) ==
    LET hits == {k \in 1..Len(content) :
                    content[k].type = "tool_use" /\ content[k].name \in HandledTools}
    IN  IF hits = {} THEN 0 ELSE CHOOSE k \in hits : \A j \in hits : k >= j

\* researcher.py 338-342, 423: the loop over the blocks of the response stops
\* (returns) at the first tool_use block naming one of the two tools it
\* handles; 0 when there is none.
FirstHandled(content) ==
    LET hits == {k \in 1..Len(content) :
                    content[k].type = "tool_use" /\ content[k].name \in HandledTools}
    IN  IF hits = {} THEN 0 ELSE CHOOSE k \in hits : \A j \in hits : k <= j

\* ------------------------------------------------------ iteration ledger

\* Faulty variant: the first pass of a run copies the records made since the
\* last IterationRecord of the ledger, if there is one.
IterationSlice_SinceLastRecord(history, iterations, idx) ==
    IF iterations = <<>> THEN history
    ELSE SelectSeq(history,
                   LAMBDA r : StrGreater(r.timestamp, Last(iterations).timestamp))

\* Faulty variant: every pass copies the whole history, as the first pass does.
IterationSlice_CopyAll(history, iterations, idx) == history

\* researcher.py 515-530: the records of a history attributed to the iteration
\* being recorded: all of them in the first pass of the loop, later those
\* stamped after the previous IterationRecord.
IterationSlice(history, iterations, idx) ==
    IF idx = 0 THEN history
    ELSE SelectSeq(history,
                   LAMBDA r : StrGreater(r.timestamp, Last(iterations).timestamp))

\* Faulty variant: the loop stops one pass early.
InRange_OffByOne(idx, n) == idx < n - 1

\* researcher.py 505: for i in range(max_iterations)
InRange(idx, n) == idx < n

\* Faulty variant: the follow-up prompt is appended after every pass.
FollowUpDue_EveryPass(idx, n) == idx < n

\* researcher.py 543: if i < max_iterations - 1
FollowUpDue(idx, n) == idx < n - 1

\* researcher.py 590-598: the session of a run that produced its report.
SuccessData(q, iterations, searches, retrievals, report, ts) ==
    [query |-> q,
     model |-> ModelId,
     iterations |-> iterations,
     search_history |-> searches,
     content_retrieval_history |-> retrievals,
     final_report |-> report,
     timestamp |-> ts]

\* Faulty variant: the failure path returns a session without the ledger.
FailureData_NoIterations(q, iterations, searches, retrievals, e, ts) ==
    [query |-> q,
     iterations |-> <<>>,
     search_history |-> searches,
     content_retrieval_history |-> retrievals,
     error |-> e,
     timestamp |-> ts]

\* researcher.py 608-615: the session of a run whose synthesis failed.
FailureData(q, iterations, searches, retrievals, e, ts) ==
    [query |-> q,
     iterations |-> iterations,
     search_history |-> searches,
     content_retrieval_history |-> retrievals,
     error |-> e,
     timestamp |-> ts]

\* ------------------------------------------------------------------- Init

\* main.py 51-67: the session state of a page that was just opened.  The None
\* of final_report is the empty text and the None of research_data is NoItem.
InitialSessionState ==
    [research_started |-> FALSE,
     research_complete |-> FALSE,
     research_data |-> NoItem,
     final_report |-> <<>>,
     error_occurred |-> FALSE,
     research_in_progress |-> FALSE]

\* Faulty variant: the start button leaves the error flag as it is.
StartResearch_KeepsError(ss) ==
    [ss EXCEPT !.research_started = TRUE,
               !.research_complete = FALSE,
               !.research_in_progress = TRUE]

\* main.py 231-236: what the start button writes.
StartResearch(ss) ==
    [ss EXCEPT !.research_started = TRUE,
               !.research_complete = FALSE,
               !.research_in_progress = TRUE,
               !.error_occurred = FALSE]

\* main.py 335-338: what the execution block writes when run has returned.
StoreResults(ss, final_report, research_data) ==
    [ss EXCEPT !.final_report = final_report,
               !.research_data = research_data,
               !.research_complete = TRUE,
               !.research_in_progress = FALSE]

\* main.py 352-353: what the except clause of the execution block writes.
RecordFailure(ss) ==
    [ss EXCEPT !.error_occurred = TRUE,
               !.research_in_progress = FALSE]

\* main.py 223: the start button is drawn.
StartButtonShown(ss) == ~ss.research_in_progress

\* main.py 249: the script enters the research execution block.
ExecutionDue(ss) == ss.research_in_progress /\ ~ss.research_complete

\* main.py 365: the results, and with them the New Research button, are drawn.
ResultsShown(ss) == ss.research_complete /\ ss.final_report # <<>>

\* The researcher as constructed (researcher.py 13-47); main.py 267-330
\* constructs one researcher per run.
Constructed ==
    /\ clock = 0
    /\ user_query = None
    /\ max_iterations = 0
    /\ i = 0
    /\ messages = <<>>
    /\ research_iterations = <<>>
    /\ search_history = <<>>
    /\ content_retrieval_history = <<>>
    /\ events = <<>>
    /\ calls = <<>>
    /\ stamps = <<>>
    /\ response = <<>>
    /\ content_item = NoItem
    /\ claude_response = <<>>
    /\ result = <<>>
    /\ invocations = <<>>

\* The researcher before run_research_loop is called on it.
Fresh ==
    /\ pc = "idle"
    /\ Constructed

\* Every reading of the clock is later than the one before.
Init ==
    /\ Fresh
    /\ session_state = InitialSessionState
    /\ ticks = {1}
    /\ responses = DecisionResponses

\* A clock whose consecutive readings may coincide.
InitClock ==
    /\ Fresh
    /\ session_state = InitialSessionState
    /\ ticks = {0, 1}
    /\ responses = PlainDecisionResponses

\* The researcher of the runs whose termination is checked.
InitFair ==
    /\ Fresh
    /\ session_state = InitialSessionState
    /\ ticks = {1}
    /\ responses = PlainDecisionResponses

IterationCounts == IF 0 \in ticks THEN 0..MaxClockIterations ELSE 0..MaxIterations

\* ---------------------------------------------------------------- actions

\* run_research_loop, researcher.py 497-503
StartRun(q, n) ==
    /\ pc = "idle"
    /\ user_query' = q
    /\ max_iterations' = n
    /\ i' = 0
    /\ events' = events \o <<Ev("info", "Starting research on"),
                             Ev("info", "Planning research iterations")>>
    /\ messages' = <<SeedMsg(q)>>
    /\ pc' = "loop"
    /\ UNCHANGED <<session_state, ticks, responses, invocations, clock, research_iterations, search_history,
                   content_retrieval_history, calls, stamps, response, content_item,
                   claude_response, result>>

\* researcher.py 505-508 and 277-327: a pass of the loop begins and the driver
\* asks the model what to do, offering the two tools.
IterationBegin ==
    /\ pc = "loop"
    /\ InRange(i, max_iterations)
    /\ events' = events \o <<IterationEvent(i, max_iterations),
                             Ev("info", "Requesting Claude's analysis...")>>
    /\ calls' = Append(calls, ModelCall("decision", TRUE, IterationMaxTokens,
                                        i + 1, Len(messages)))
    /\ response' = <<>>
    /\ content_item' = NoItem
    /\ pc' = "wait_decision"
    /\ UNCHANGED <<session_state, ticks, responses, invocations, clock, user_query, max_iterations, i, messages,
                   research_iterations, search_history, content_retrieval_history,
                   stamps, claude_response, result>>

\* researcher.py 490-495: an exception of a model call inside
\* run_research_iteration.  When no try encloses the call site the exception
\* leaves run_research_loop.
ModelRaisesInIteration(site, waiting) ==
    /\ pc = waiting
    /\ calls' = Settle(calls, "raised")
    /\ IF EnclosingTry(site) = "run_research_iteration"
       THEN /\ events' = Append(events, Ev("error", "Error during research iteration"))
            /\ claude_response' = IterationErrorText(ModelError)
            /\ pc' = "iter_return"
       ELSE /\ pc' = "raised"
            /\ UNCHANGED <<events, claude_response>>
    /\ UNCHANGED <<session_state, ticks, responses, invocations, clock, user_query, max_iterations, i, messages,
                   research_iterations, search_history, content_retrieval_history,
                   stamps, response, content_item, result>>

DecisionRaises == ModelRaisesInIteration("decision", "wait_decision")

\* researcher.py 329-367, 423-439 and 480-488: the model answered; the first
\* block the driver handles decides what happens.
DecisionReturns(r) ==
    /\ pc = "wait_decision"
    /\ response' = r
    /\ LET k  == FirstHandled(r)
           ev == Append(events, Ev("info", "Claude is analyzing the research topic..."))
       IN  IF k = 0
           THEN /\ events' = Append(ev, Ev("info", "Claude is formulating research strategy..."))
                /\ messages' = AppendMessage(messages, AssistantMsg(r))
                /\ claude_response' = ExtractTextContent(r)
                /\ calls' = Settle(calls, "returned")
                /\ pc' = "iter_return"
                /\ UNCHANGED content_item
           ELSE IF r[k].name = "web_search"
           THEN /\ events' = ev \o <<Ev("search", "Claude is searching for"),
                                     Ev("search", "Searching for")>>
                /\ messages' = AppendMessage(messages, AssistantMsg(r))
                /\ content_item' = r[k]
                /\ calls' = Append(Settle(calls, "returned"),
                                   ProviderCall("search", Get(r[k].input, "query", ""),
                                                i + 1, Len(messages')))
                /\ pc' = "wait_search"
                /\ UNCHANGED claude_response
           ELSE /\ events' = ev \o <<Ev("content", "Claude is retrieving full article content..."),
                                     Ev("content", "Retrieving content from")>>
                /\ messages' = AppendMessage(messages, AssistantMsg(r))
                /\ content_item' = r[k]
                /\ calls' = Append(Settle(calls, "returned"),
                                   ProviderCall("fetch", Get(r[k].input, "url", ""),
                                                i + 1, Len(messages')))
                /\ pc' = "wait_fetch"
                /\ UNCHANGED claude_response
    /\ UNCHANGED <<session_state, ticks, responses, invocations, clock, user_query, max_iterations, i,
                   research_iterations, search_history, content_retrieval_history,
                   stamps, result>>

\* researcher.py 90-124 and 369-405: the search provider returned or raised;
\* search_with_exa logs the call, the driver formats what it got, appends the
\* tool result and asks the model for its analysis (no tools offered).
SearchDone(outcome, d) ==
    /\ pc = "wait_search"
    /\ clock' = clock + d
    /\ stamps' = Append(stamps, IsoFormat(clock'))
    /\ LET rec == SearchRecord(outcome,
                               Get(content_item.input, "query", ""),
                               Get(content_item.input, "start_date", None),
                               Get(content_item.input, "end_date", None),
                               IsoFormat(clock'))
           search_results == SearchReturn(outcome)
           after == <<SearchAfterEvent(outcome)>>
           shape == IF FormatReportsShape(search_results)
                    THEN <<Ev("error", "Unexpected search response format")>>
                    ELSE <<>>
       IN  /\ search_history' = AppendRecord(search_history, rec)
           /\ events' = events \o after \o shape
                            \o <<Ev("info", "Found papers. Claude is analyzing..."),
                                 Ev("info", "Claude is analyzing search results...")>>
           /\ messages' = AppendMessage(messages,
                                        ToolResultMsg(content_item.id,
                                                      FormatSearchResults(search_results)))
           /\ calls' = Append(Settle(calls, outcome.kind),
                              AnalysisCall(i + 1, Len(messages')))
    /\ pc' = "wait_analysis"
    /\ UNCHANGED <<session_state, ticks, responses, invocations, user_query, max_iterations, i,
                   research_iterations, content_retrieval_history, response,
                   content_item, claude_response, result>>

SearchProviderReturns ==
    \E outcome \in {o \in SearchOutcomes : o.kind = "returned"}, d \in ticks :
        SearchDone(outcome, d)

SearchProviderRaises ==
    \E outcome \in {o \in SearchOutcomes : o.kind = "raised"}, d \in ticks :
        SearchDone(outcome, d)

\* researcher.py 132-190 and 441-463: the same for the fetch provider.
FetchDone(outcome, d) ==
    /\ pc = "wait_fetch"
    /\ clock' = clock + d
    /\ stamps' = Append(stamps, IsoFormat(clock'))
    /\ LET rec == FetchRecord(outcome, Get(content_item.input, "url", ""),
                              IsoFormat(clock'))
           after == <<FetchAfterEvent(outcome)>>
       IN  /\ content_retrieval_history' = AppendRecord(content_retrieval_history, rec)
           /\ events' = events \o after
                            \o <<Ev("info", "Article retrieved. Claude is analyzing..."),
                                 Ev("info", "Claude is analyzing article content...")>>
           /\ messages' = AppendMessage(messages,
                                        ToolResultMsg(content_item.id, FetchReturn(outcome)))
           /\ calls' = Append(Settle(calls, outcome.kind),
                              AnalysisCall(i + 1, Len(messages')))
    /\ pc' = "wait_analysis"
    /\ UNCHANGED <<session_state, ticks, responses, invocations, user_query, max_iterations, i,
                   research_iterations, search_history, response, content_item,
                   claude_response, result>>

FetchProviderReturns ==
    \E outcome \in {o \in FetchOutcomes : o.kind = "returned"}, d \in ticks :
        FetchDone(outcome, d)

FetchProviderRaises ==
    \E outcome \in {o \in FetchOutcomes : o.kind = "raised"}, d \in ticks :
        FetchDone(outcome, d)

\* researcher.py 407-420 and 465-478: the analysis came back.
AnalysisReturns ==
    /\ pc = "wait_analysis"
    /\ messages' = AppendMessage(messages, AssistantMsg(AnalysisResponse))
    /\ claude_response' = ExtractTextContent(AnalysisResponse)
    /\ calls' = Settle(calls, "returned")
    /\ pc' = "iter_return"
    /\ UNCHANGED <<session_state, ticks, responses, invocations, clock, user_query, max_iterations, i,
                   research_iterations, search_history, content_retrieval_history,
                   events, stamps, response, content_item, result>>

AnalysisRaises == ModelRaisesInIteration("analysis", "wait_analysis")

\* researcher.py 511-553: the controller stamps the iteration, attributes the
\* records to it, appends the IterationRecord and, unless this was the last
\* pass, the follow-up prompt.
RecordIteration(d) ==
    /\ pc = "iter_return"
    /\ clock' = clock + d
    /\ stamps' = Append(stamps, IsoFormat(clock'))
    /\ research_iterations' =
           Append(research_iterations,
                  [iteration |-> i + 1,
                   query |-> user_query,
                   response |-> claude_response,
                   search_queries |->
                       IterationSlice(search_history, research_iterations, i),
                   content_retrievals |->
                       IterationSlice(content_retrieval_history, research_iterations, i),
                   timestamp |-> IsoFormat(clock')])
    /\ messages' = IF FollowUpDue(i, max_iterations)
                   THEN AppendMessage(messages, NextPrompt(user_query))
                   ELSE messages
    /\ i' = i + 1
    /\ pc' = "loop"
    /\ UNCHANGED <<session_state, ticks, responses, invocations, user_query, max_iterations, search_history,
                   content_retrieval_history, events, calls, response, content_item,
                   claude_response, result>>

\* researcher.py 555-584: after the loop the final prompt is appended and the
\* report is requested (no tools, the larger budget).
BeginSynthesis ==
    /\ pc = "loop"
    /\ ~InRange(i, max_iterations)
    /\ events' = Append(events, Ev("final_report", "Generating comprehensive research report..."))
    /\ messages' = AppendMessage(messages, FinalPrompt(user_query, max_iterations))
    /\ calls' = Append(calls, SynthesisCall(Len(messages')))
    /\ pc' = "wait_synthesis"
    /\ UNCHANGED <<session_state, ticks, responses, invocations, clock, user_query, max_iterations, i,
                   research_iterations, search_history, content_retrieval_history,
                   stamps, response, content_item, claude_response, result>>

\* researcher.py 586-601
SynthesisReturns(d) ==
    /\ pc = "wait_synthesis"
    /\ clock' = clock + d
    /\ stamps' = Append(stamps, IsoFormat(clock'))
    /\ calls' = Settle(calls, "returned")
    /\ events' = Append(events, Ev("info", "Research complete!"))
    /\ result' = <<ExtractTextContent(ReportResponse),
                   SuccessData(user_query, research_iterations, search_history,
                               content_retrieval_history,
                               ExtractTextContent(ReportResponse), IsoFormat(clock'))>>
    /\ pc' = "done"
    /\ UNCHANGED <<session_state, ticks, responses, invocations, user_query, max_iterations, i, messages,
                   research_iterations, search_history, content_retrieval_history,
                   response, content_item, claude_response>>

\* researcher.py 603-615
SynthesisRaises(d) ==
    /\ pc = "wait_synthesis"
    /\ calls' = Settle(calls, "raised")
    /\ IF EnclosingTry("synthesis") = "run_research_loop"
       THEN /\ clock' = clock + d
            /\ stamps' = Append(stamps, IsoFormat(clock'))
            /\ events' = Append(events, Ev("error", "Error generating final report"))
            /\ result' = <<ReportErrorText(ModelError),
                           FailureData(user_query, research_iterations, search_history,
                                       content_retrieval_history, ModelError,
                                       IsoFormat(clock'))>>
            /\ pc' = "done"
       ELSE /\ pc' = "raised"
            /\ UNCHANGED <<clock, stamps, events, result>>
    /\ UNCHANGED <<session_state, ticks, responses, invocations, user_query, max_iterations, i, messages,
                   research_iterations, search_history, content_retrieval_history,
                   response, content_item, claude_response>>

Next ==
    \/ \E q \in Queries, n \in IterationCounts : StartRun(q, n)
    \/ IterationBegin
    \/ DecisionRaises
    \/ \E r \in responses : DecisionReturns(r)
    \/ SearchProviderReturns
    \/ SearchProviderRaises
    \/ FetchProviderReturns
    \/ FetchProviderRaises
    \/ AnalysisReturns
    \/ AnalysisRaises
    \/ \E d \in ticks : RecordIteration(d)
    \/ BeginSynthesis
    \/ \E d \in ticks : SynthesisReturns(d)
    \/ \E d \in ticks : SynthesisRaises(d)

Spec == Init /\ [][Next]_vars

SpecClock == InitClock /\ [][Next]_vars

\* A run that was started goes on: the interpreter takes the next step, and
\* every external call in progress returns or raises.
SpecFair == InitFair /\ [][Next]_vars /\ WF_vars(Next /\ pc # "idle")

\* ------------------------------------------- the methods called on their own

\* A call of a method of the researcher by a caller other than the loop: the
\* method, its argument, what the provider did inside it (NoItem for the
\* formatter, which calls none) and what the method returned or raised.
Invocation(fn, arg, provider, out) ==
    [fn |-> fn, arg |-> arg, provider |-> provider, out |-> out]

\* A researcher as constructed, whose adapters and formatter are called by a
\* caller other than run_research_loop.
InitDirect ==
    /\ pc = "direct"
    /\ Constructed
    /\ session_state = InitialSessionState
    /\ ticks = {1}
    /\ responses = {}

\* researcher.py 59-124: search_with_exa, the provider call included.
CallSearchWithExa(query, start_date, end_date, outcome, d) ==
    /\ pc = "direct"
    /\ Len(invocations) < MaxDirectCalls
    /\ clock' = clock + d
    /\ stamps' = Append(stamps, IsoFormat(clock'))
    /\ calls' = Append(calls, [ProviderCall("search", query, NoNum, Len(messages))
                                  EXCEPT !.outcome = outcome.kind])
    /\ search_history' =
           AppendRecord(search_history,
                        SearchRecord(outcome, query, start_date, end_date,
                                     IsoFormat(clock')))
    /\ events' = events \o <<Ev("search", "Searching for"),
                              AfterCall(SearchAfterEvent(outcome))>>
    /\ invocations' = Append(invocations,
                             Invocation("search_with_exa", [query |-> query], outcome,
                                        Returned(SearchReturn(outcome))))
    /\ UNCHANGED <<session_state, pc, ticks, responses, user_query, max_iterations, i, messages,
                   research_iterations, content_retrieval_history, response,
                   content_item, claude_response, result>>

\* researcher.py 126-190: get_full_content, the provider call included.
CallGetFullContent(url, outcome, d) ==
    /\ pc = "direct"
    /\ Len(invocations) < MaxDirectCalls
    /\ clock' = clock + d
    /\ stamps' = Append(stamps, IsoFormat(clock'))
    /\ calls' = Append(calls, [ProviderCall("fetch", url, NoNum, Len(messages))
                                  EXCEPT !.outcome = outcome.kind])
    /\ content_retrieval_history' =
           AppendRecord(content_retrieval_history,
                        FetchRecord(outcome, url, IsoFormat(clock')))
    /\ events' = events \o <<Ev("content", "Retrieving content from"),
                              AfterCall(FetchAfterEvent(outcome))>>
    /\ invocations' = Append(invocations,
                             Invocation("get_full_content", [url |-> url], outcome,
                                        Returned(FetchReturn(outcome))))
    /\ UNCHANGED <<session_state, pc, ticks, responses, user_query, max_iterations, i, messages,
                   research_iterations, search_history, response, content_item,
                   claude_response, result>>

\* researcher.py 201-260: format_search_results.  The exception of line 224
\* has no handler inside the formatter and reaches the caller.
CallFormatSearchResults(search_response) ==
    /\ pc = "direct"
    /\ Len(invocations) < MaxDirectCalls
    /\ events' = IF FormatReportsShape(search_response)
                 THEN Append(events, Ev("error", "Unexpected search response format"))
                 ELSE events
    /\ invocations' =
           Append(invocations,
                  Invocation("format_search_results", search_response, NoItem,
                             IF FormatFault(search_response) = <<>>
                             THEN Returned(FormatSearchResults(search_response))
                             ELSE Raised(FormatFault(search_response)[1])))
    /\ UNCHANGED <<session_state, pc, ticks, responses, clock, user_query, max_iterations, i,
                   messages, research_iterations, search_history,
                   content_retrieval_history, calls, stamps, response, content_item,
                   claude_response, result>>

NextDirect ==
    \/ \E q \in Queries, outcome \in AnySearchOutcomes, d \in ticks :
            CallSearchWithExa(q, None, None, outcome, d)
    \/ \E outcome \in AnyFetchOutcomes, d \in ticks :
            CallGetFullContent("u_b", outcome, d)
    \/ \E search_response \in FormatInputs :
            CallFormatSearchResults(search_response)

SpecDirect == InitDirect /\ [][NextDirect]_vars

\* -------------------------------------- run_research_loop called a second time

\* The passes a run may be asked for when the same researcher is run again.
RerunCounts == 0..MaxLedger

\* What the researcher is asked when it is run again.
FollowUpQueries == {"metformin and kidney function"}

\* The researcher whose run_research_loop is called more than once.
InitRerun ==
    /\ Fresh
    /\ session_state = InitialSessionState
    /\ ticks = {1}
    /\ responses = PlainDecisionResponses

\* researcher.py 497-503, on a researcher whose earlier call has returned:
\* the caller keeps what it asked and the report it got, and calls again.
\* initialize_conversation (192-199) assigns a new list to self.messages;
\* nothing assigns research_iterations, search_history or
\* content_retrieval_history outside __init__ (44-46).
RunAgain(q, n) ==
    /\ pc = "done"
    /\ Len(invocations) + 1 < MaxRuns
    /\ Len(research_iterations) + n <= MaxLedger
    /\ invocations' = Append(invocations,
                             Invocation("run_research_loop",
                                        [query |-> user_query,
                                         max_iterations |-> max_iterations],
                                        NoItem, Returned(result[1])))
    /\ user_query' = q
    /\ max_iterations' = n
    /\ i' = 0
    /\ events' = events \o <<Ev("info", "Starting research on"),
                             Ev("info", "Planning research iterations")>>
    /\ messages' = <<SeedMsg(q)>>
    /\ pc' = "loop"
    /\ UNCHANGED <<session_state, ticks, responses, clock, research_iterations, search_history,
                   content_retrieval_history, calls, stamps, response, content_item,
                   claude_response, result>>

NextRerun ==
    \/ \E q \in Queries, n \in RerunCounts : StartRun(q, n)
    \/ \E q \in FollowUpQueries, n \in RerunCounts : RunAgain(q, n)
    \/ IterationBegin
    \/ DecisionRaises
    \/ \E r \in responses : DecisionReturns(r)
    \/ SearchProviderReturns
    \/ SearchProviderRaises
    \/ FetchProviderReturns
    \/ FetchProviderRaises
    \/ AnalysisReturns
    \/ AnalysisRaises
    \/ \E d \in ticks : RecordIteration(d)
    \/ BeginSynthesis
    \/ \E d \in ticks : SynthesisReturns(d)
    \/ \E d \in ticks : SynthesisRaises(d)

SpecRerun == InitRerun /\ [][NextRerun]_vars

\* ----------------------------------------------------------- the page, main.py

\* main.py 75-80: the slider of the number of iterations starts at 3.
SliderMin == 3

SliderCounts == SliderMin..MaxIterations

\* A page that was just opened: the script has run once, no researcher
\* exists yet.  In these sessions the model answers in text or fails, so
\* run_research_loop calls no adapter.
InitPage ==
    /\ pc = "page"
    /\ Constructed
    /\ session_state = InitialSessionState
    /\ ticks = {1}
    /\ responses = {RespText}

\* main.py 223-238: the start button is clicked (it is enabled: a query was
\* entered and the keys are configured); st.rerun() starts the next pass
\* of the script.
ClickStart ==
    /\ pc = "page"
    /\ StartButtonShown(session_state)
    /\ Len(invocations) < MaxPasses
    /\ session_state' = StartResearch(session_state)
    /\ UNCHANGED <<pc, ticks, responses, clock, user_query, max_iterations, i, messages,
                   research_iterations, search_history, content_retrieval_history,
                   events, calls, stamps, response, content_item, claude_response,
                   result, invocations>>

\* main.py 249-267: a pass of the script enters the execution block and calls
\* the constructor of the researcher.
EnterExecutionBlock ==
    /\ pc = "page"
    /\ ExecutionDue(session_state)
    /\ pc' = "constructing"
    /\ UNCHANGED <<session_state, ticks, responses, clock, user_query, max_iterations, i,
                   messages, research_iterations, search_history,
                   content_retrieval_history, events, calls, stamps, response,
                   content_item, claude_response, result, invocations>>

\* main.py 267-328, researcher.py 13-47: the constructor returns a new
\* researcher, with a new progress callback.
ConstructorReturns ==
    /\ pc = "constructing"
    /\ invocations' = Append(invocations,
                             Invocation("__init__", [model |-> ModelId], NoItem,
                                        Returned(<<>>)))
    /\ user_query' = None
    /\ max_iterations' = 0
    /\ i' = 0
    /\ messages' = <<>>
    /\ research_iterations' = <<>>
    /\ search_history' = <<>>
    /\ content_retrieval_history' = <<>>
    /\ events' = <<>>
    /\ calls' = <<>>
    /\ stamps' = <<>>
    /\ response' = <<>>
    /\ content_item' = NoItem
    /\ claude_response' = <<>>
    /\ result' = <<>>
    /\ pc' = "idle"
    /\ UNCHANGED <<session_state, ticks, responses, clock>>

\* main.py 347-358: the except clause, entered when the constructor raised
\* or when run_research_loop raised; the script goes on to its end.
ExecutionRaises ==
    /\ pc \in {"constructing", "raised"}
    /\ invocations' = IF pc = "constructing"
                      THEN Append(invocations,
                                  Invocation("__init__", [model |-> ModelId], NoItem,
                                             Raised("constructor error")))
                      ELSE invocations
    /\ session_state' = RecordFailure(session_state)
    /\ pc' = "page"
    /\ UNCHANGED <<ticks, responses, clock, user_query, max_iterations, i, messages,
                   research_iterations, search_history, content_retrieval_history,
                   events, calls, stamps, response, content_item, claude_response,
                   result>>

\* main.py 330-346: run_research_loop has returned; its report and session
\* are stored and st.rerun() ends the pass.
RunReturns ==
    /\ pc = "done"
    /\ session_state' = StoreResults(session_state, result[1], result[2])
    /\ pc' = "page"
    /\ UNCHANGED <<ticks, responses, clock, user_query, max_iterations, i, messages,
                   research_iterations, search_history, content_retrieval_history,
                   events, calls, stamps, response, content_item, claude_response,
                   result, invocations>>

\* main.py 393-405: the New Research button clears the session state.
NewResearch ==
    /\ pc = "page"
    /\ ResultsShown(session_state)
    /\ session_state' = InitialSessionState
    /\ UNCHANGED <<pc, ticks, responses, clock, user_query, max_iterations, i, messages,
                   research_iterations, search_history, content_retrieval_history,
                   events, calls, stamps, response, content_item, claude_response,
                   result, invocations>>

NextPage ==
    \/ ClickStart
    \/ EnterExecutionBlock
    \/ ConstructorReturns
    \/ ExecutionRaises
    \/ \E q \in Queries, n \in SliderCounts : StartRun(q, n)
    \/ IterationBegin
    \/ DecisionRaises
    \/ \E r \in responses : DecisionReturns(r)
    \/ \E d \in ticks : RecordIteration(d)
    \/ BeginSynthesis
    \/ \E d \in ticks : SynthesisReturns(d)
    \/ \E d \in ticks : SynthesisRaises(d)
    \/ RunReturns
    \/ NewResearch

SpecPage == InitPage /\ [][NextPage]_vars

\* ------------------------------------------------------------ properties

Indices(s) == 1..Len(s)

Finished == pc = "done"

\* The calls made in pass k of the loop, in order.
CallsOfIteration(k) == SelectSeq(calls, LAMBDA c : c.iteration = k)

ModelRaisedIn(k) ==
    \E n \in Indices(calls) :
        /\ calls[n].kind = "model"
        /\ calls[n].iteration = k
        /\ calls[n].outcome = "raised"

\* C1: whatever the model, the search provider and the fetch provider do at
\* any call (return or raise), run_research_loop does not raise to its
\* caller, and what it returns is a pair of a report text and a session record.
C1_RunNeverRaises ==
    /\ pc # "raised"
    /\ pc \in {"idle", "loop", "wait_decision", "wait_search", "wait_fetch",
               "wait_analysis", "iter_return", "wait_synthesis", "done"}
    /\ Finished =>
          /\ Len(result) = 2
          /\ result[1] \in {ExtractTextContent(ReportResponse), ReportErrorText(ModelError)}
          /\ {"query", "iterations", "search_history", "content_retrieval_history",
              "timestamp"} \subseteq DOMAIN result[2]
    /\ ~Finished => result = <<>>

\* A run that returned although the decision call, the analysis call, the
\* synthesis call, the search provider and the fetch provider each raised.
C1_Witness ==
    /\ Finished
    /\ \A site \in {"decision", "analysis", "synthesis"} :
           \E n \in Indices(calls) :
               calls[n].purpose = site /\ calls[n].outcome = "raised"
    /\ \A kind \in {"search", "fetch"} :
           \E n \in Indices(calls) :
               calls[n].kind = kind /\ calls[n].outcome = "raised"

\* C2: when the final-synthesis prompt is appended (and from then on) the
\* ledger holds exactly max_iterations IterationRecords, numbered 1, 2, ...
\* in order, whatever happened in the passes of the loop.
C2_LedgerHasNRecords ==
    pc \in {"wait_synthesis", "done"} =>
        /\ Len(research_iterations) = max_iterations
        /\ \A k \in Indices(research_iterations) :
               research_iterations[k].iteration = k

\* The final prompt was just appended after three passes: one that used a
\* tool, one that used none, one whose decision call failed.
C2_Witness ==
    /\ pc = "wait_synthesis"
    /\ max_iterations = 3
    /\ Last(messages) = FinalPrompt(user_query, 3)
    /\ \E a, b, c \in 1..3 :
           /\ Len(CallsOfIteration(a)) = 3
           /\ Len(CallsOfIteration(b)) = 1 /\ CallsOfIteration(b)[1].outcome = "returned"
           /\ Len(CallsOfIteration(c)) = 1 /\ CallsOfIteration(c)[1].outcome = "raised"

\* Every timestamp taken is greater, as a string, than those taken before.
StrictlyIncreasing ==
    \A a, b \in Indices(stamps) : a < b => StrGreater(stamps[b], stamps[a])

SlicesOf(field) ==
    Concat([k \in Indices(research_iterations) |-> research_iterations[k][field]])

\* C3: with strictly increasing timestamps, after every pass of the loop and
\* at its end the search_queries slices of the IterationRecords, concatenated
\* in ledger order, are search_history, and the content_retrievals slices are
\* content_retrieval_history: every record is in exactly one slice.
C3_SlicesPartitionHistories ==
    (pc \in {"loop", "wait_synthesis"} /\ StrictlyIncreasing) =>
        /\ SlicesOf("search_queries") = search_history
        /\ SlicesOf("content_retrievals") = content_retrieval_history

\* The loop ended with strictly increasing timestamps, a search attributed
\* to the first pass and a retrieval attributed to the second.
C3_Witness ==
    /\ pc = "wait_synthesis"
    /\ StrictlyIncreasing
    /\ Len(research_iterations) = 2
    /\ Len(research_iterations[1].search_queries) = 1
    /\ Len(research_iterations[2].content_retrievals) = 1
    /\ Len(search_history) = 1
    /\ Len(content_retrieval_history) = 1

\* The call the driver made last is a model call of a pass of the loop, and
\* it raised.
IterationCallRaised ==
    /\ calls # <<>>
    /\ Last(calls).purpose \in {"decision", "analysis"}
    /\ Last(calls).outcome = "raised"

\* C4: a model call that raises in pass k (the decision call or the analysis
\* call) is caught by the driver: an error event is emitted and the driver
\* returns the error text; that text is the response of IterationRecord k;
\* and the controller goes on, to the decision call of pass k+1 when
\* k < max_iterations and to the synthesis call when k = max_iterations.
C4_ModelErrorBecomesResponse ==
    /\ IterationCallRaised => pc \in {"iter_return", "loop"}
    /\ (IterationCallRaised /\ pc = "iter_return") =>
          /\ claude_response = IterationErrorText(ModelError)
          /\ Last(events).type = "error"
    /\ \A k \in Indices(research_iterations) :
          ModelRaisedIn(k) =>
             /\ research_iterations[k].response = IterationErrorText(ModelError)
             /\ (k < Len(research_iterations) \/ pc # "loop") =>
                    \E n \in Indices(calls) :
                        IF k < max_iterations
                        THEN calls[n].purpose = "decision" /\ calls[n].iteration = k + 1
                        ELSE calls[n].purpose = "synthesis"

\* A finished run of three passes whose first pass lost its decision call
\* and whose last pass lost its analysis call.
C4_Witness ==
    /\ Finished
    /\ max_iterations = 3
    /\ Len(CallsOfIteration(1)) = 1 /\ ModelRaisedIn(1)
    /\ Len(CallsOfIteration(3)) = 3 /\ ModelRaisedIn(3)
    /\ ~ModelRaisedIn(2)
    /\ research_iterations[3].response = IterationErrorText(ModelError)

\* C5: the step in which the synthesis call raises returns the error report
\* as the report text, and a session holding the ledger as the loop left it
\* (max_iterations records, the same records in the same order), the error
\* text and the two full histories; the ledger and the histories themselves
\* are not touched by that step.
C5_SynthesisFailureKeepsLedger ==
    [][(pc = "wait_synthesis" /\ calls'[Len(calls')].outcome = "raised") =>
          /\ pc' = "done"
          /\ result'[1] = ReportErrorText(ModelError)
          /\ result'[2].iterations = research_iterations
          /\ Len(result'[2].iterations) = max_iterations
          /\ result'[2].error = ModelError
          /\ result'[2].search_history = search_history
          /\ result'[2].content_retrieval_history = content_retrieval_history
          /\ UNCHANGED <<research_iterations, search_history,
                         content_retrieval_history>>]_vars

\* A run of three passes in which only the synthesis call raised, with a
\* search and a retrieval in the histories.
C5_Witness ==
    /\ Finished
    /\ max_iterations = 3
    /\ Last(calls).purpose = "synthesis" /\ Last(calls).outcome = "raised"
    /\ \A n \in 1..(Len(calls) - 1) : calls[n].outcome = "returned"
    /\ search_history # <<>>
    /\ content_retrieval_history # <<>>
    /\ Len(result[2].iterations) = 3

SearchAlwaysRaised ==
    \A n \in Indices(calls) :
        calls[n].kind = "search" => calls[n].outcome \in {"raised", "pending"}

\* C6: as long as every call of the search provider has raised, every
\* SearchRecord has its error populated and a result count of 0, there is one
\* record per provider call that ended, and the run does not abort: it
\* returns its pair.
C6_FailedSearchesAreRecorded ==
    SearchAlwaysRaised =>
        /\ \A n \in Indices(search_history) :
               /\ "error" \in DOMAIN search_history[n]
               /\ search_history[n].error = SearchError
               /\ search_history[n].num_results = 0
        /\ Len(search_history) =
               Cardinality({n \in Indices(calls) :
                               calls[n].kind = "search" /\ calls[n].outcome = "raised"})
        /\ pc # "raised"
        /\ Finished => Len(result) = 2 /\ result[2].search_history = search_history

\* A finished run in which the search provider was called three times and
\* raised every time.
C6_Witness ==
    /\ Finished
    /\ SearchAlwaysRaised
    /\ Len(search_history) = 3

\* The driver has just returned from a pass in which a tool was used and no
\* model call failed.
ToolPassReturned ==
    /\ pc = "iter_return"
    /\ Last(calls).purpose = "analysis"
    /\ Last(calls).outcome = "returned"

\* C7: when the driver returns from a pass in which the response invoked
\* web_search (get_article_content) and no model call failed, it made exactly
\* three calls in this order: the decision call with the tools, when the
\* conversation had L messages; one call of the search (fetch) provider, when
\* the assistant's raw response had been appended (L+1 messages); one
\* analysis call without tools, when the tool result bound to the id of the
\* invocation acted on had been appended (L+2 messages).  The conversation
\* then has L+3 messages, the last being the analysis, whose text is returned.
C7_ToolPassOrder ==
    ToolPassReturned =>
        LET cs == CallsOfIteration(i + 1)
            L  == cs[1].nmsgs
        IN  /\ Len(cs) = 3
            /\ cs[1].purpose = "decision" /\ cs[1].tools /\ cs[1].outcome = "returned"
            /\ cs[2].kind = (IF content_item.name = "web_search" THEN "search" ELSE "fetch")
            /\ cs[2].nmsgs = L + 1
            /\ cs[3].purpose = "analysis" /\ ~cs[3].tools /\ cs[3].nmsgs = L + 2
            /\ Len(messages) = L + 3
            /\ messages[L + 1] = [role |-> "assistant", content |-> response]
            /\ messages[L + 2].role = "user"
            /\ Len(messages[L + 2].content) = 1
            /\ messages[L + 2].content[1].type = "tool_result"
            /\ messages[L + 2].content[1].tool_use_id = content_item.id
            /\ messages[L + 3] = [role |-> "assistant", content |-> AnalysisResponse]
            /\ claude_response = <<"analysis">>
            /\ \E k \in Indices(response) : response[k] = content_item

\* The driver returned from a search pass and from a fetch pass.
C7_Witness ==
    /\ ToolPassReturned
    /\ content_item.name = "get_article_content"
    /\ i = 1
    /\ Len(search_history) = 1
    /\ Len(messages) = 8

\* The driver is past the decision call of the current pass, which returned.
DecisionAnswered ==
    /\ pc \in {"wait_search", "wait_fetch", "wait_analysis", "iter_return"}
    /\ response # <<>>

\* The provider calls of the current pass.
ProviderCallsOfPass ==
    SelectSeq(CallsOfIteration(i + 1), LAMBDA c : c.kind \in {"search", "fetch"})

\* The tool-result blocks appended in the current pass.
ToolResultsOfPass ==
    LET L == CallsOfIteration(i + 1)[1].nmsgs
    IN  SelectSeq([m \in 1..(Len(messages) - L) |-> messages[L + m].content[1]],
                  LAMBDA b : b.type = "tool_result")

IsInvocation(block) == block.type = "tool_use"

IsHandledInvocation(block) ==
    block.type = "tool_use" /\ block.name \in {"web_search", "get_article_content"}

\* The provider call c is the one block asks for.
CallIsFor(c, block) ==
    /\ c.kind = (IF block.name = "web_search" THEN "search" ELSE "fetch")
    /\ c.arg = (IF block.name = "web_search" THEN block.input.query ELSE block.input.url)

\* The one block acted on in the current pass is response[k]: the only
\* provider call is the one it asks for and the only tool result carries its id.
OnlyActedOn(k) ==
    /\ Len(ProviderCallsOfPass) = 1
    /\ CallIsFor(ProviderCallsOfPass[1], response[k])
    /\ Len(ToolResultsOfPass) <= 1
    /\ \A n \in Indices(ToolResultsOfPass) :
           ToolResultsOfPass[n].tool_use_id = response[k].id
    /\ pc = "iter_return" /\ Last(calls).outcome = "returned" =>
           Len(ToolResultsOfPass) = 1

\* C8 as claimed: of the tool-invocation blocks of a response only the first
\* in block order is acted on: the one provider call of the pass is made for
\* the first invocation block, and no later block gets a call or a tool result.
C8_FirstInvocationActedOn ==
    DecisionAnswered =>
        \A k \in Indices(response) :
            (IsInvocation(response[k])
                 /\ \A j \in 1..(k - 1) : ~IsInvocation(response[j]))
            => \/ OnlyActedOn(k)
               \/ Len(ProviderCallsOfPass) = 0 /\ Len(ToolResultsOfPass) = 0

\* C8 as amended: of the tool-invocation blocks of a response only the first
\* one that names web_search or get_article_content is acted on: exactly one
\* provider call is made in the pass, for that block; the only tool result of
\* the pass carries its id; every other invocation block, before or after
\* it, gets no provider call and no tool result.  A response with no such
\* block causes no provider call and no tool result.
C8_FirstHandledInvocationActedOn ==
    DecisionAnswered =>
        /\ \A k \in Indices(response) :
               (IsHandledInvocation(response[k])
                    /\ \A j \in 1..(k - 1) : ~IsHandledInvocation(response[j]))
               => OnlyActedOn(k) /\ content_item = response[k]
        /\ (\A k \in Indices(response) : ~IsHandledInvocation(response[k]))
               => Len(ProviderCallsOfPass) = 0 /\ Len(ToolResultsOfPass) = 0

\* The driver returned from a pass whose response held two invocations, and
\* from a pass whose response held an invocation it does not handle first.
C8_Witness ==
    /\ pc = "iter_return"
    /\ response = RespUnknownThenSearch
    /\ Last(calls).outcome = "returned"
    /\ i = 1
    /\ messages[2].content = RespMulti
    /\ Len(messages) = 8

ToolResultBlocks ==
    {<<m, b>> \in Indices(messages) \X {1} :
        messages[m].content[b].type = "tool_result"}

\* C9: every tool-result block of the conversation carries the id of a
\* tool-invocation block of an earlier assistant message.
C9_ToolResultRefersToEarlierInvocation ==
    \A m \in Indices(messages) :
        \A b \in Indices(messages[m].content) :
            messages[m].content[b].type = "tool_result" =>
                \E m2 \in 1..(m - 1) :
                    /\ messages[m2].role = "assistant"
                    /\ \E b2 \in Indices(messages[m2].content) :
                           /\ messages[m2].content[b2].type = "tool_use"
                           /\ messages[m2].content[b2].id =
                                  messages[m].content[b].tool_use_id

\* A conversation with three tool results bound to three different ids.
C9_Witness ==
    /\ Finished
    /\ Cardinality({messages[t[1]].content[1].tool_use_id : t \in ToolResultBlocks}) = 3

\* C10: from the seed message on, every step of the driver and of the
\* controller leaves the conversation it found as a prefix of the
\* conversation it leaves.
C10_ConversationAppendOnly ==
    [][pc # "idle" => IsPrefix(messages, messages')]_vars

\* A finished run whose conversation holds two user messages in a row (a
\* pass failed before the assistant answered) and two tool exchanges.
C10_Witness ==
    /\ Finished
    /\ \E m \in 1..(Len(messages) - 1) :
           messages[m].role = "user" /\ messages[m + 1].role = "user"
    /\ Cardinality(ToolResultBlocks) = 2
    /\ Last(calls).outcome = "raised"

\* ------------------------------------------------------- C11: no tool invoked

\* The step in which the decision call of a pass returns.
DecisionAnswers ==
    /\ pc = "wait_decision"
    /\ Len(calls') >= Len(calls)
    /\ calls'[Len(calls)].outcome = "returned"

NoInvocation(content) == \A k \in Indices(content) : ~IsInvocation(content[k])

\* C11: when the answer to the decision call holds no tool-invocation block,
\* the driver appends one message, the assistant response as received,
\* returns the texts of its text blocks in order, makes no adapter call and
\* no second model call, and leaves both histories as they were.
C11_NoToolPass ==
    [][(DecisionAnswers /\ NoInvocation(response')) =>
          /\ messages' = Append(messages, AssistantMsg(response'))
          /\ pc' = "iter_return"
          /\ claude_response' = [k \in Indices(response') |-> response'[k].text]
          /\ Len(calls') = Len(calls)
          /\ search_history' = search_history
          /\ content_retrieval_history' = content_retrieval_history]_vars

\* A pass that returned the two texts of a response without invocation.
C11_Witness ==
    /\ pc = "iter_return"
    /\ NoInvocation(response)
    /\ Len(response) = 2
    /\ claude_response = <<response[1].text, response[2].text>>
    /\ Last(messages) = AssistantMsg(response)
    /\ Last(calls).purpose = "decision"
    /\ Last(calls).outcome = "returned"

\* ------------------------------------------- C12: faults of the search provider

LastCallIs(fn) == invocations # <<>> /\ Last(invocations).fn = fn

\* A response the adapter cannot count results in: no results field (None
\* included), or results that have no length.
UnusableSearchResponse(v) == v.shape \notin {"attr", "dict"} \/ ~v.sized

SearchProviderFaulted(outcome) ==
    outcome.kind = "raised" \/ UnusableSearchResponse(outcome.value)

\* C12: whenever the provider raised or returned an unusable response,
\* search_with_exa returns None to its caller (it does not raise) and the
\* SearchRecord it appended carries the error text and num_results 0.
C12_SearchFaultsContained ==
    (LastCallIs("search_with_exa") /\ SearchProviderFaulted(Last(invocations).provider)) =>
        /\ Last(invocations).out = Returned(NoneResponse)
        /\ search_history # <<>>
        /\ "error" \in DOMAIN Last(search_history)
        /\ Last(search_history).num_results = 0

\* -------------------------------------------- C13: faults of the fetch provider

\* The provider raised, or what it returned holds no markdown (or None for
\* markdown) wherever the adapter looks for it.
FetchProviderFaulted(outcome) ==
    \/ outcome.kind = "raised"
    \/ outcome.value.markdown = <<>>
    \/ outcome.value.markdown = <<NoneStr>>

\* C13: whenever the fetch provider raised, or the content is absent from
\* its response in every shape the adapter accepts, get_full_content returns
\* the marker "Error retrieving content" to its caller (it does not raise)
\* and the FetchRecord it appended has success = FALSE.
C13_FetchFaultsContained ==
    (LastCallIs("get_full_content") /\ FetchProviderFaulted(Last(invocations).provider)) =>
        /\ Last(invocations).out = Returned(Str("Error retrieving content", 24))
        /\ content_retrieval_history # <<>>
        /\ Last(content_retrieval_history).success = FALSE
        /\ Last(content_retrieval_history).url = Last(invocations).arg.url

\* Two fetches on one researcher: the provider raised in the first, and in
\* the second returned a mapping whose data holds no markdown.
C13_Witness ==
    /\ Len(invocations) = 2
    /\ \A k \in {1, 2} : invocations[k].fn = "get_full_content"
    /\ invocations[1].provider = Raised(FetchError)
    /\ invocations[2].provider = Returned(FetchResponse("dict_data", <<>>))
    /\ invocations[2].out = Returned(ErrContent)
    /\ Len(content_retrieval_history) = 2
    /\ \A k \in {1, 2} : content_retrieval_history[k].success = FALSE

\* ------------------------------------------------- C14: iteration events

IterationEvents == SelectSeq(events, LAMBDA e : e.type = "iteration")

\* C14: the iteration events of a run carry (1, N), (2, N), ... in that
\* order, there are exactly N of them once the loop is over, the event of
\* pass k is emitted after the IterationRecord of pass k - 1 was appended
\* (and before that of pass k), and the decision call of pass k, like every
\* other call of the pass, is made after it.
C14_IterationEventsInOrder ==
    /\ Len(IterationEvents) <= max_iterations
    /\ pc \in {"wait_synthesis", "done"} => Len(IterationEvents) = max_iterations
    /\ \A k \in Indices(IterationEvents) :
           /\ IterationEvents[k].iteration_num = k
           /\ IterationEvents[k].total_iterations = max_iterations
           /\ IterationEvents[k].nrecords = k - 1
    /\ \A n \in Indices(calls) :
           calls[n].purpose = "decision" =>
               /\ calls[n].iteration \in Indices(IterationEvents)
               /\ IterationEvents[calls[n].iteration].ncalls < n

\* A finished run of the largest number of passes, with its events and a
\* decision call in every pass.
C14_Witness ==
    /\ Finished
    /\ max_iterations = MaxIterations
    /\ Len(IterationEvents) = MaxIterations
    /\ \A k \in 1..MaxIterations :
           \E n \in Indices(calls) :
               calls[n].purpose = "decision" /\ calls[n].iteration = k

\* ------------------------------------------------- C15: follow-up prompts

FollowUps == {k \in Indices(messages) : messages[k] = NextPrompt(user_query)}

\* C15: in the step that appends the IterationRecord of pass k the follow-up
\* prompt is appended to the conversation if k < max_iterations, and nothing
\* is appended otherwise; the conversation of a run of N >= 1 passes holds
\* one follow-up prompt per recorded pass but the last, N - 1 when the loop
\* is over (none when N = 0).
C15_FollowUpPrompts ==
    /\ [](max_iterations >= 1 =>
             Cardinality(FollowUps) = Min(Len(research_iterations), max_iterations - 1))
    /\ [](max_iterations = 0 => FollowUps = {})
    /\ [][Len(research_iterations') = Len(research_iterations) + 1 =>
             IF Last(research_iterations').iteration < max_iterations
             THEN messages' = Append(messages, NextPrompt(user_query))
             ELSE messages' = messages]_vars

\* The loop of a run of the largest number of passes is over: one prompt
\* after each pass but the last, whose record is followed by the final prompt.
C15_Witness ==
    /\ pc = "wait_synthesis"
    /\ max_iterations = MaxIterations
    /\ Len(research_iterations) = MaxIterations
    /\ Cardinality(FollowUps) = MaxIterations - 1
    /\ Last(messages) = FinalPrompt(user_query, max_iterations)
    /\ messages[Len(messages) - 1] # NextPrompt(user_query)

\* ------------------------------------------------- C16: the synthesis request

SynthesisRequests == {n \in Indices(calls) : calls[n].purpose = "synthesis"}

IterationLevelCalls ==
    {n \in Indices(calls) : calls[n].purpose \in {"decision", "analysis"}}

\* C16: a run requests the report at most once, and exactly once when it is
\* over; when the request exists all max_iterations IterationRecords are
\* in the ledger; the conversation sent with it ends with the final prompt;
\* it offers no tools and its max_tokens exceeds that of every model call
\* made in a pass.
C16_OneSynthesisRequest ==
    /\ Cardinality(SynthesisRequests) <= 1
    /\ pc \in {"wait_synthesis", "done"} => Cardinality(SynthesisRequests) = 1
    /\ \A n \in SynthesisRequests :
           /\ Len(research_iterations) = max_iterations
           /\ n = Len(calls)
           /\ calls[n].kind = "model"
           /\ calls[n].nmsgs = Len(messages)
           /\ messages[calls[n].nmsgs] = FinalPrompt(user_query, max_iterations)
           /\ messages[calls[n].nmsgs].role = "user"
           /\ ~calls[n].tools
           /\ \A m \in IterationLevelCalls :
                  m < n /\ calls[m].max_tokens < calls[n].max_tokens

\* The report is being requested after passes that made decision calls and
\* analysis calls.
C16_Witness ==
    /\ pc = "wait_synthesis"
    /\ max_iterations = MaxIterations
    /\ Last(calls).purpose = "synthesis"
    /\ Last(calls).outcome = "pending"
    /\ \E m \in IterationLevelCalls : calls[m].purpose = "decision"
    /\ \E m \in IterationLevelCalls : calls[m].purpose = "analysis"

\* ------------------------------------------------- C17..C19: the formatter

\* The text returned is not the empty string.
NonEmptyText(formatted) == formatted.fixed # "" \/ formatted.blocks # <<>>

NoResultsStrings == {"No search results found.", "No results found for the given query."}

IsNoResultsString(formatted) ==
    formatted.blocks = <<>> /\ formatted.fixed \in NoResultsStrings

\* The response holds results, a sequence, and it is empty.
EmptyResultSet(search_response) ==
    /\ search_response.shape \in {"attr", "dict"}
    /\ search_response.sized
    /\ search_response.results = <<>>

\* No results field, or results that are not a sequence of entries (None, a
\* string).
MalformedResultSet(search_response) ==
    \/ search_response.shape \notin {"None", "attr", "dict"}
    \/ ~search_response.sized /\ search_response.shape # "None"
    \/ \E k \in Indices(search_response.results) :
           search_response.results[k].style = "char"

\* C17: whatever it is handed, format_search_results returns (it does not
\* raise), what it returns is not the empty string, and for an empty or a
\* malformed result set it is a "no results" string.
C17_FormatterTotal ==
    LastCallIs("format_search_results") =>
        /\ Last(invocations).out.kind = "returned"
        /\ NonEmptyText(Last(invocations).out.value)
        /\ (EmptyResultSet(Last(invocations).arg) \/ MalformedResultSet(Last(invocations).arg))
               => IsNoResultsString(Last(invocations).out.value)

FormatCalls == {k \in Indices(invocations) : invocations[k].fn = "format_search_results"}

\* C18 as claimed: the formatter returns the same string for None and for an
\* empty result set, in both cases a string that is not empty.
C18_SameNoResultsString ==
    \A a, b \in FormatCalls :
        (invocations[a].arg = NoneResponse /\ EmptyResultSet(invocations[b].arg)) =>
            /\ invocations[a].out.kind = "returned"
            /\ invocations[b].out.kind = "returned"
            /\ NonEmptyText(invocations[a].out.value)
            /\ invocations[a].out = invocations[b].out

\* C18 as amended: for None the formatter returns "No search results found.", for an
\* empty result set "No results found for the given query."; neither call
\* raises and neither string is empty.
C18_TwoNoResultsStrings ==
    \A a \in FormatCalls :
        /\ invocations[a].arg = NoneResponse =>
               /\ invocations[a].out.kind = "returned"
               /\ invocations[a].out.value.blocks = <<>>
               /\ invocations[a].out.value.fixed = "No search results found."
        /\ EmptyResultSet(invocations[a].arg) =>
               /\ invocations[a].out.kind = "returned"
               /\ invocations[a].out.value.blocks = <<>>
               /\ invocations[a].out.value.fixed = "No results found for the given query."

\* The formatter was called with None and with an empty result set.
C18_Witness ==
    /\ Len(invocations) = 2
    /\ FormatCalls = {1, 2}
    /\ invocations[1].arg = NoneResponse
    /\ EmptyResultSet(invocations[2].arg)
    /\ invocations[1].out.kind = "returned"
    /\ invocations[2].out.kind = "returned"
    /\ invocations[1].out # invocations[2].out

\* The results with every entry that faults replaced by a well-formed one.
Repaired(search_response) ==
    [search_response EXCEPT
        !.results = [k \in Indices(search_response.results) |->
                        IF search_response.results[k].text = NoneStr
                        THEN Entry1 ELSE search_response.results[k]]]

\* A sequence of entries (each with a text, well-formed or not).
EntrySequence(search_response) ==
    /\ search_response.shape \in {"attr", "dict"}
    /\ search_response.sized
    /\ search_response.results # <<>>
    /\ \A k \in Indices(search_response.results) :
           "text" \in DOMAIN search_response.results[k]

\* C19: for a sequence of n entries the formatter returns n blocks, block k
\* with ordinal k; block k is the placeholder exactly when the text of entry
\* k is None (the fault of formatting it), and every other block is the
\* block at that position when the faulting entries are replaced by
\* well-formed ones.
C19_FaultsStayLocal ==
    (LastCallIs("format_search_results") /\ EntrySequence(Last(invocations).arg)) =>
        LET arg    == Last(invocations).arg
            out    == Last(invocations).out
            blocks == out.value.blocks
            clean  == FormatSearchResults(Repaired(arg)).blocks
        IN  /\ out.kind = "returned"
            /\ Len(blocks) = Len(arg.results)
            /\ \A k \in Indices(blocks) :
                   /\ blocks[k].ordinal = k
                   /\ blocks[k].placeholder <=> (arg.results[k].text = NoneStr)
                   /\ ~blocks[k].placeholder =>
                          /\ blocks[k] = clean[k]
                          /\ blocks[k].title = arg.results[k].title
                          /\ blocks[k].url = arg.results[k].url

\* A malformed entry followed by a well-formed one: two blocks, the first
\* the placeholder, the second the block of the well-formed entry.
C19_Witness ==
    /\ LastCallIs("format_search_results")
    /\ Last(invocations).arg = SearchResponse("attr", TRUE, <<EntryNoText, Entry1>>)
    /\ Last(invocations).out.kind = "returned"
    /\ Len(Last(invocations).out.value.blocks) = 2
    /\ Last(invocations).out.value.blocks[1].placeholder
    /\ ~Last(invocations).out.value.blocks[2].placeholder
    /\ Last(invocations).out.value.blocks[2].title = "T1"

\* ------------------------------------------------- C20: truncation of content

\* The provider returned a document where the adapter looks for it.
Fetched(outcome) ==
    /\ outcome.kind = "returned"
    /\ outcome.value.markdown # <<>>
    /\ outcome.value.markdown # <<NoneStr>>

\* C20: for a fetched document of length L get_full_content returns the
\* first min(L, 100000) characters of it; 100000 characters for a document
\* of 150000.
C20_ContentTruncated ==
    (LastCallIs("get_full_content") /\ Fetched(Last(invocations).provider)) =>
        LET doc == Last(invocations).provider.value.markdown[1]
            out == Last(invocations).out
        IN  /\ out.kind = "returned"
            /\ out.value.s = doc.s
            /\ out.value.len = IF doc.len <= 100000 THEN doc.len ELSE 100000
            /\ doc.len = 150000 => out.value.len = 100000

\* Two fetches on one researcher: a document of 99999 characters, returned
\* whole, then one of 150000 characters, returned cut to 100000.
C20_Witness ==
    /\ Len(invocations) = 2
    /\ \A k \in {1, 2} : invocations[k].fn = "get_full_content"
    /\ invocations[1].provider = Returned(FetchResponse("attr_markdown", <<Str("doc", 99999)>>))
    /\ invocations[1].out = Returned(Str("doc", 99999))
    /\ invocations[2].provider = Returned(FetchResponse("dict_data", <<Str("doc", 150000)>>))
    /\ invocations[2].out = Returned(Str("doc", 100000))

\* ------------------------------------------------- C21: the excerpt of a text

\* C21: in the block of every entry whose text has L characters the excerpt
\* is the first 2000 characters followed by the marker when L > 2000, and
\* the whole text without marker when L <= 2000, whatever the style of the
\* entry.
C21_ExcerptLimit ==
    (LastCallIs("format_search_results") /\ EntrySequence(Last(invocations).arg)) =>
        LET results == Last(invocations).arg.results
            blocks  == Last(invocations).out.value.blocks
        IN  \A k \in Indices(results) :
                results[k].text # NoneStr =>
                    /\ Len(blocks[k].excerpt) = 1
                    /\ blocks[k].excerpt[1].s = results[k].text.s
                    /\ IF results[k].text.len > 2000
                       THEN /\ blocks[k].excerpt[1].len = 2000
                            /\ blocks[k].excerpt[1].ellipsis
                       ELSE /\ blocks[k].excerpt[1].len = results[k].text.len
                            /\ ~blocks[k].excerpt[1].ellipsis

\* Two calls of the formatter: an attribute-style entry and a mapping-style
\* entry of 3000 and 1500 characters, then a mapping-style entry of exactly
\* 2000 characters.
C21_Witness ==
    /\ Len(invocations) = 2
    /\ FormatCalls = {1, 2}
    /\ invocations[1].arg = SearchResponse("attr", TRUE, <<Entry1, Entry2>>)
    /\ invocations[1].out.value.blocks[1].excerpt = <<[s |-> "body1", len |-> 2000, ellipsis |-> TRUE]>>
    /\ invocations[1].out.value.blocks[2].excerpt = <<[s |-> "body2", len |-> 1500, ellipsis |-> FALSE]>>
    /\ invocations[2].arg = SearchResponse("attr", TRUE, <<TextEntry("dict", 2000)>>)
    /\ invocations[2].out.value.blocks[1].excerpt = <<[s |-> "body4", len |-> 2000, ellipsis |-> FALSE]>>

\* ------------------------------------------------- C22: one call at a time

PendingCalls == {n \in Indices(calls) : calls[n].outcome = "pending"}

\* C22: at most one external call is in progress, and it is the one made
\* last; a call of pass k exists only when the IterationRecords of the
\* passes before k are in the ledger, and the record of pass k is appended
\* only when every call of the pass has ended.
C22_StrictlySequential ==
    /\ Cardinality(PendingCalls) <= 1
    /\ PendingCalls \subseteq {Len(calls)}
    /\ \A n \in Indices(calls) :
           calls[n].iteration # NoNum =>
               /\ Len(research_iterations) >= calls[n].iteration - 1
               /\ Len(research_iterations) >= calls[n].iteration => n \notin PendingCalls
    /\ \A m, n \in Indices(calls) :
           (m < n /\ calls[n].iteration # NoNum) =>
               /\ calls[m].iteration # NoNum
               /\ calls[m].iteration <= calls[n].iteration

\* The analysis call of the second pass is in progress: the record of the
\* first pass is in the ledger and every earlier call has ended.
C22_Witness ==
    /\ pc = "wait_analysis"
    /\ Len(research_iterations) = 1
    /\ Last(calls).iteration = 2
    /\ PendingCalls = {Len(calls)}
    /\ Len(CallsOfIteration(1)) = 3
    /\ Len(CallsOfIteration(2)) = 3

\* ------------------------------------------------- C23: the run terminates

\* C23: a run that was started, with any max_iterations >= 0, ends: it
\* returns after max_iterations passes of the loop (one iteration event
\* and one IterationRecord each) and one request of the report, whatever
\* was raised inside the passes.
C23_RunTerminates ==
    (pc # "idle") ~>
        (/\ Finished
         /\ Len(IterationEvents) = max_iterations
         /\ Len(research_iterations) = max_iterations
         /\ Cardinality(SynthesisRequests) = 1)

\* A run of the largest number of passes that ended although a model call
\* raised in every pass and the request of the report raised too.
C23_Witness ==
    /\ Finished
    /\ max_iterations = MaxIterations
    /\ \A k \in 1..MaxIterations : ModelRaisedIn(k)
    /\ Last(calls).purpose = "synthesis"
    /\ Last(calls).outcome = "raised"

\* ------------------------------------------------- C24: single attempts

CallsWhere(k, purposes) ==
    {n \in Indices(calls) : calls[n].iteration = k /\ calls[n].purpose \in purposes}

ModelCalls == {n \in Indices(calls) : calls[n].kind = "model"}

AdapterCalls == {n \in Indices(calls) : calls[n].kind \in {"search", "fetch"}}

\* C24: in every pass there is at most one decision call, at most one
\* adapter call and at most one analysis call; a run of N passes makes at
\* most 2N + 1 model calls and at most N adapter calls, and the two
\* histories together hold at most one record per pass begun.
C24_SingleAttempts ==
    /\ \A k \in 1..max_iterations :
           /\ Cardinality(CallsWhere(k, {"decision"})) <= 1
           /\ Cardinality(CallsWhere(k, {"tool"})) <= 1
           /\ Cardinality(CallsWhere(k, {"analysis"})) <= 1
    /\ \A n \in Indices(calls) :
           calls[n].iteration = NoNum \/ calls[n].iteration \in 1..max_iterations
    /\ Cardinality(ModelCalls) <= 2 * max_iterations + 1
    /\ Cardinality(AdapterCalls) <= max_iterations
    /\ Len(search_history) + Len(content_retrieval_history) <= Len(IterationEvents)
    /\ Len(search_history) + Len(content_retrieval_history) <= Len(research_iterations) + 1

\* A finished run in which every pass used a tool: 2N + 1 model calls, N
\* adapter calls, N records in the histories, and a provider that raised
\* was not called again.
C24_Witness ==
    /\ Finished
    /\ max_iterations = MaxIterations
    /\ Cardinality(ModelCalls) = 2 * MaxIterations + 1
    /\ Cardinality(AdapterCalls) = MaxIterations
    /\ Len(search_history) + Len(content_retrieval_history) = MaxIterations
    /\ \E n \in AdapterCalls : calls[n].outcome = "raised"

\* ------------------------------------------------- C25: one record per call

\* C25: a call of search_with_exa appends exactly one record, for its
\* query, to search_history and leaves content_retrieval_history alone; a
\* call of get_full_content appends exactly one record, for its url, to
\* content_retrieval_history and leaves search_history alone; whatever the
\* provider did; the records that were there stay as they were and where
\* they were.
C25_OneRecordPerCall ==
    [][Len(invocations') = Len(invocations) + 1 =>
          /\ Last(invocations').fn = "search_with_exa" =>
                 /\ Len(search_history') = Len(search_history) + 1
                 /\ SubSeq(search_history', 1, Len(search_history)) = search_history
                 /\ Last(search_history').query = Last(invocations').arg.query
                 /\ content_retrieval_history' = content_retrieval_history
          /\ Last(invocations').fn = "get_full_content" =>
                 /\ Len(content_retrieval_history') = Len(content_retrieval_history) + 1
                 /\ SubSeq(content_retrieval_history', 1, Len(content_retrieval_history))
                        = content_retrieval_history
                 /\ Last(content_retrieval_history').url = Last(invocations').arg.url
                 /\ search_history' = search_history]_vars

\* A search whose provider raised, then a search that returned results, on
\* one researcher: two records, the first with the error, the second with
\* the count.
C25_Witness ==
    /\ Len(invocations) = 2
    /\ \A k \in {1, 2} : invocations[k].fn = "search_with_exa"
    /\ invocations[1].provider.kind = "raised"
    /\ invocations[2].provider = Returned(SearchResponse("attr", TRUE, <<Entry1, Entry2>>))
    /\ Len(search_history) = 2
    /\ "error" \in DOMAIN search_history[1]
    /\ "error" \notin DOMAIN search_history[2]
    /\ search_history[2].num_results = 2
    /\ content_retrieval_history = <<>>

\* ------------------------------------------------- C26: the session returned

\* C26: the session a run returns, whether the report was produced or its
\* request raised, holds the query, the model identifier, the ledger, both
\* histories and a timestamp; when the request raised it holds the error too.
C26_SessionFields ==
    Finished =>
        /\ {"query", "model", "iterations", "search_history",
            "content_retrieval_history", "timestamp"} \subseteq DOMAIN result[2]
        /\ result[2].query = user_query
        /\ result[2].model = ModelId
        /\ result[2].iterations = research_iterations
        /\ result[2].search_history = search_history
        /\ result[2].content_retrieval_history = content_retrieval_history
        /\ result[2].timestamp = Last(stamps)
        /\ Last(calls).outcome = "raised" =>
               /\ "error" \in DOMAIN result[2]
               /\ result[2].error = ModelError

\* ------------------------------------------------- C27: events of the adapters

AdapterKind(fn) == IF fn = "search_with_exa" THEN "search" ELSE "content"

LastCallIsAdapter ==
    invocations # <<>> /\ Last(invocations).fn \in {"search_with_exa", "get_full_content"}

\* The events of the last adapter call: one emitted before its provider
\* call, one after.
EventBefore == events[Len(events) - 1]
EventAfter == events[Len(events)]

AnalysisRaisedIn(k) ==
    \E n \in Indices(calls) :
        /\ calls[n].purpose = "analysis"
        /\ calls[n].iteration = k
        /\ calls[n].outcome = "raised"

\* C28: with strictly increasing timestamps, for every recorded pass k in
\* which a tool was executed and the analysis call then raised: the
\* assistant message with the invocation and the tool-result message bound
\* to it are still in the conversation, where they were appended, and no
\* analysis follows them; the record the adapter appended is the only
\* record attributed to IterationRecord k; and the response of
\* IterationRecord k is the text of the error.
C28_FailedAnalysisKeepsLedger ==
    StrictlyIncreasing =>
        \A k \in Indices(research_iterations) :
            AnalysisRaisedIn(k) =>
                LET cs  == CallsOfIteration(k)
                    L   == cs[1].nmsgs
                    rec == research_iterations[k]
                IN  /\ Len(cs) = 3
                    /\ cs[2].kind \in {"search", "fetch"}
                    /\ Len(messages) >= L + 2
                    /\ messages[L + 1].role = "assistant"
                    /\ messages[L + 2].role = "user"
                    /\ messages[L + 2].content[1].type = "tool_result"
                    /\ \E b \in Indices(messages[L + 1].content) :
                           /\ IsHandledInvocation(messages[L + 1].content[b])
                           /\ messages[L + 1].content[b].id
                                  = messages[L + 2].content[1].tool_use_id
                    /\ Len(messages) >= L + 3 => messages[L + 3].role = "user"
                    /\ rec.response = <<"An error occurred: ", ModelError>>
                    /\ IF cs[2].kind = "search"
                       THEN /\ Len(rec.search_queries) = 1
                            /\ rec.content_retrievals = <<>>
                            /\ rec.search_queries[1].query = cs[2].arg
                            /\ \E j \in Indices(search_history) :
                                   search_history[j] = rec.search_queries[1]
                       ELSE /\ Len(rec.content_retrievals) = 1
                            /\ rec.search_queries = <<>>
                            /\ rec.content_retrievals[1].url = cs[2].arg
                            /\ \E j \in Indices(content_retrieval_history) :
                                   content_retrieval_history[j] = rec.content_retrievals[1]

\* Two recorded passes with strictly increasing timestamps: a search whose
\* analysis raised, then a fetch whose analysis raised.
C28_Witness ==
    /\ StrictlyIncreasing
    /\ Len(research_iterations) = 2
    /\ AnalysisRaisedIn(1)
    /\ AnalysisRaisedIn(2)
    /\ CallsOfIteration(1)[2].kind = "search"
    /\ CallsOfIteration(2)[2].kind = "fetch"
    /\ Len(research_iterations[1].search_queries) = 1
    /\ Len(research_iterations[2].content_retrievals) = 1

\* ------------------------------------------------- C29: a tool the driver does not know

\* The response invokes tools, none of them web_search or get_article_content.
OnlyUnknownInvocations(content) ==
    /\ \E k \in Indices(content) : IsInvocation(content[k])
    /\ \A k \in Indices(content) : ~IsHandledInvocation(content[k])

TextsOf(content) ==
    LET texts == SelectSeq(content, LAMBDA b : b.type = "text")
    IN  [k \in Indices(texts) |-> texts[k].text]

\* C29: when every invocation of the answer to the decision call names a
\* tool other than web_search and get_article_content, the driver does what
\* it does for an answer without invocation: it appends one message, the
\* assistant response with its invocation blocks, returns the texts of its
\* text blocks, makes no adapter call and no second model call, appends no
\* tool result and leaves both histories as they were.
C29_UnknownToolIsNoTool ==
    [][(DecisionAnswers /\ OnlyUnknownInvocations(response')) =>
          /\ messages' = Append(messages, [role |-> "assistant", content |-> response'])
          /\ pc' = "iter_return"
          /\ claude_response' = TextsOf(response')
          /\ Len(calls') = Len(calls)
          /\ search_history' = search_history
          /\ content_retrieval_history' = content_retrieval_history]_vars

\* A pass that returned the text of a response invoking get_full_content.
C29_Witness ==
    /\ pc = "iter_return"
    /\ OnlyUnknownInvocations(response)
    /\ response[2].name = "get_full_content"
    /\ claude_response = <<"retrieving">>
    /\ Last(messages) = [role |-> "assistant", content |-> response]
    /\ Last(calls).purpose = "decision"
    /\ Last(calls).outcome = "returned"
    /\ search_history = <<>>
    /\ content_retrieval_history = <<>>

\* ------------------------------------------------- C30: the shape of the conversation

\* The conversation only grows, so its first nmsgs messages are the
\* conversation a call was made with.
RequestsStartAndEndWithUser ==
    \A n \in ModelCalls :
        /\ calls[n].nmsgs >= 1
        /\ calls[n].nmsgs <= Len(messages)
        /\ messages[1].role = "user"
        /\ messages[calls[n].nmsgs].role = "user"

NoModelCallFailed == \A n \in ModelCalls : calls[n].outcome # "raised"

RolesAlternate ==
    \A k \in Indices(messages) :
        messages[k].role = (IF k % 2 = 1 THEN "user" ELSE "assistant")

\* C30 as claimed: every model call is made with a conversation that is not
\* empty and starts and ends with a user message, and in a run where no
\* model call fails the roles alternate user, assistant, user, ...
C30_ConversationShape ==
    /\ RequestsStartAndEndWithUser
    /\ NoModelCallFailed => RolesAlternate

\* C30 as amended: the alternation is that of a run of at least one
\* iteration.
C30_ConversationShapeOfIterations ==
    /\ RequestsStartAndEndWithUser
    /\ (NoModelCallFailed /\ max_iterations >= 1) => RolesAlternate

\* A finished run of MaxIterations passes in which no model call failed:
\* a pass with a tool and its analysis, a pass without one, the synthesis.
C30_Witness ==
    /\ Finished
    /\ max_iterations = MaxIterations
    /\ NoModelCallFailed
    /\ \E n \in ModelCalls : calls[n].purpose = "analysis"
    /\ Cardinality({n \in ModelCalls : calls[n].purpose = "analysis"}) < MaxIterations
    /\ \E n \in ModelCalls : calls[n].purpose = "synthesis" /\ calls[n].nmsgs = Len(messages)
    /\ Len(messages) >= 2 * MaxIterations + 3
    /\ RolesAlternate

\* ------------------------------------------------- C31: the same researcher run again

\* The passes asked of the first run, once the second call was made.
FirstRunPasses == invocations[1].arg.max_iterations

\* The second call of run_research_loop is the one in progress or returned.
InSecondRun == Len(invocations) = 1

\* The records of a history made during the first run: for a first run with
\* passes, those not stamped after its last IterationRecord.
OfFirstRun(history) ==
    IF FirstRunPasses = 0 THEN <<>>
    ELSE SelectSeq(history,
                   LAMBDA r : ~StrGreater(r.timestamp,
                                          research_iterations[FirstRunPasses].timestamp))

\* C31: calling run_research_loop on a researcher whose run has returned
\* replaces the conversation by the new seed message and leaves the ledger
\* and both histories as they are; the session the second run returns has
\* the IterationRecords of both runs, N1 + N2, and the first
\* IterationRecord of the second run is attributed every search and
\* retrieval record of the first run.
C31_RerunKeepsLedger ==
    /\ [][(pc = "done" /\ pc' = "loop") =>
             /\ messages' = <<SeedMsg(user_query')>>
             /\ research_iterations' = research_iterations
             /\ search_history' = search_history
             /\ content_retrieval_history' = content_retrieval_history]_vars
    /\ []((InSecondRun /\ Finished) =>
             /\ Len(result[2].iterations) = FirstRunPasses + max_iterations
             /\ IsPrefix(SubSeq(research_iterations, 1, FirstRunPasses),
                         result[2].iterations)
             /\ IsPrefix(OfFirstRun(search_history), result[2].search_history)
             /\ IsPrefix(OfFirstRun(content_retrieval_history),
                         result[2].content_retrieval_history))
    /\ []((InSecondRun /\ Len(research_iterations) > FirstRunPasses) =>
             LET rec == research_iterations[FirstRunPasses + 1]
             IN  /\ rec.iteration = 1
                 /\ rec.query = user_query
                 /\ IsPrefix(OfFirstRun(search_history), rec.search_queries)
                 /\ IsPrefix(OfFirstRun(content_retrieval_history),
                             rec.content_retrievals))

\* Two runs of one pass each have returned: the first searched, the second
\* fetched, and the second run's IterationRecord holds the search.
C31_Witness ==
    /\ InSecondRun
    /\ Finished
    /\ FirstRunPasses = 1
    /\ max_iterations = 1
    /\ user_query \in FollowUpQueries
    /\ Len(messages) = 5
    /\ Len(search_history) = 1
    /\ Len(content_retrieval_history) = 1
    /\ research_iterations[1].search_queries = search_history
    /\ research_iterations[1].content_retrievals = <<>>
    /\ research_iterations[2].search_queries = search_history
    /\ research_iterations[2].content_retrievals = content_retrieval_history
    /\ Len(result[2].iterations) = 2

\* ------------------------------------------------- C32: the flags of the page

\* A pass of the script leaves the research execution block.
LeavesExecutionBlock == pc \in {"constructing", "raised", "done"} /\ pc' = "page"

\* run_research_loop has returned the report of a failed synthesis.
ReturnedErrorReport ==
    /\ pc = "done"
    /\ Last(calls).purpose = "synthesis"
    /\ Last(calls).outcome = "raised"
    /\ result[1] = ReportErrorText(ModelError)

\* C32: every pass through the research execution block ends with
\* research_in_progress false and exactly one of research_complete and
\* error_occurred true; error_occurred becomes true only in a pass in which
\* the constructor or run_research_loop raised; and a pass in which
\* run_research_loop returned the report of a failed synthesis stores that
\* report, sets research_complete and leaves error_occurred false.
C32_ExecutionBlockFlags ==
    /\ [][LeavesExecutionBlock =>
             /\ ~session_state'.research_in_progress
             /\ session_state'.research_complete # session_state'.error_occurred]_vars
    /\ [][(~session_state.error_occurred /\ session_state'.error_occurred) =>
             /\ pc \in {"constructing", "raised"}
             /\ pc = "constructing" =>
                    Last(invocations').out = Raised("constructor error")]_vars
    /\ [][(ReturnedErrorReport /\ pc' = "page") =>
             /\ session_state'.research_complete
             /\ ~session_state'.error_occurred
             /\ ~session_state'.research_in_progress
             /\ session_state'.final_report = ReportErrorText(ModelError)
             /\ session_state'.research_data = result[2]]_vars

\* The second pass of a session: the constructor raised in the first, and
\* in the second the run returned the report of a failed synthesis.
C32_Witness ==
    /\ pc = "page"
    /\ Len(invocations) = 2
    /\ invocations[1].out = Raised("constructor error")
    /\ calls # <<>>
    /\ Last(calls).purpose = "synthesis"
    /\ Last(calls).outcome = "raised"
    /\ session_state.research_started
    /\ session_state.research_complete
    /\ ~session_state.error_occurred
    /\ ~session_state.research_in_progress
    /\ session_state.final_report = ReportErrorText(ModelError)
    /\ session_state.research_data = result[2]

====
